---- MODULE Spec2Model ----
(***************************************************************************)
(* Agent-loop protocol engine of the computer-use runner:                  *)
(*   - the confirmation policy (src/src/confirmation.py),                  *)
(*   - the agent loop (src/src/main.py, main),                             *)
(*   - the transport/retry client (src/src/client.py).                     *)
(*                                                                         *)
(* Text is modelled as a sequence of lexical units (tokens); a keyword is  *)
(* a sequence of units and Python's `term in text` is contiguous           *)
(* occurrence.  Japanese keywords are written in romaji because the module *)
(* is ASCII: sakujo = delete, shoukyo = erase, gomibako = trash,           *)
(* uwagaki = overwrite, okikae = replace, hozon = save, betsumei = under   *)
(* another name, yoroshii = "is it all right", and so on.                  *)
(***************************************************************************)
EXTENDS Integers, Sequences, FiniteSets, TLC

VARIABLES
    AUTO_CONFIRM,                   \* config.py: auto-confirmation switch
    USE_CONFIRM_INTERPRETER_MODEL,  \* config.py: classifier model or keyword heuristic
    AUTO_CONFIRM_BLOCK_RISKY,       \* config.py: risk denylist switch
    response,                       \* main: the latest response of the action model
    computer_call,                  \* main: the action call derived for this step
    step,                           \* main: loop counter
    pc,                             \* main: position in the loop body
    halt,                           \* main: why the loop stopped ("" while running)
    executed,                       \* number of actions execute_action has carried out
    error,                          \* main: the ValueError of this step's action ("" if none)
    effects,                        \* the pointer/keyboard calls made for this step's action
    captures,                       \* the screenshots taken for this step's action
    screenshot_path,                \* main: the screenshot execute_action returned
    log,                            \* session: the entries written for this step's action
    submission,                     \* main: the last evidence submission sent
    submissions,                    \* number of evidence submissions sent in this run
    output_texts,                   \* confirmation: the text the policy last judged
    needs_confirm,                  \* confirmation: the permission-intent answer
    file_op,                        \* confirmation: the file-operation class
    verdict,                        \* confirmation: the policy's last verdict
    message,                        \* confirmation: the synthesized message last sent
    interpreter,                    \* confirmation: how the classifier sub-call ended
    AUTO_ACK_SAFETY_CHECKS,         \* config.py: unattended acknowledgment switch
    original,                       \* client: the request as the caller passed it
    kwargs,                         \* client: the request in flight
    attempt,                        \* client: the retry loop's counter
    send_pc,                        \* client: "idle", "attempt", "returned" or "raised"
    last_err,                       \* client: the last error received
    raised_err,                     \* client: the error raised to the caller
    granted,                        \* client: the last failure was an acknowledged handshake
    acknowledged_ids,               \* the ids acknowledged so far in this send
    calls,                          \* number of service calls of this send
    sleeps,                         \* number of backoff sleeps of this send
    acks,                           \* number of acknowledged handshakes of this send
    sleep_s,                        \* client: the length of the last sleep, in half seconds
    only_rate_limits,               \* every failure of this send so far was a rate limit
    settings,                       \* the environment: which required settings are present
    ENABLE_SESSION_SUMMARY,         \* config.py: session summary switch
    last_sent_screenshot,           \* main: the screenshot last sent to the action model
    issued,                         \* number of response ids the service has issued in this run
    received,                       \* id of the latest response received from the action model
    request,                        \* the last request sent to the action model
    subcall,                        \* the classifier or summary request of the last loop step
    confirm_sends,                  \* synthesized messages sent in this loop iteration
    turn_kinds,                     \* what each turn at the top of the loop carried
    final_line,                     \* the reason main printed when the loop stopped
    exit_code,                      \* how main ended: "0" returned, "1" raised, "" running
    scale_args,                     \* utils: the arguments of the scale_point call
    scale_pc,                       \* utils: "idle", "call", "returned" or "raised"
    scale_result,                   \* utils: the point scale_point returned
    enabled,                        \* StatusIndicator: self.enabled
    _thread,                        \* StatusIndicator: "none", "started", "polling" or "exited"
    _queue,                         \* StatusIndicator: the items put and not yet got
    root,                           \* the UI thread's window: "none", "open" or "destroyed"
    last,                           \* pump_queue: the latest status got (0 for None)
    text_var,                       \* the status the window displays (0 for "starting...")
    put_log,                        \* every item put into the queue, in order
    drained,                        \* every item got from the queue, in order
    status_pc,                      \* main, as the indicator sees it
    updates,                        \* number of calls of status.update
    loop_exit,                      \* how the loop was left: "", "return", "halt", "exception"
    stop_calls,                     \* number of calls of status.stop
    raised_into_loop                \* an indicator call raised into main

stepVars == <<error, effects, captures, screenshot_path, log>>
loopVars == <<response, computer_call, step, pc, halt, executed,
              error, effects, captures, screenshot_path, log, submission, submissions>>
policyVars == <<output_texts, needs_confirm, file_op, verdict, message, interpreter>>
configVars == <<AUTO_CONFIRM, USE_CONFIRM_INTERPRETER_MODEL, AUTO_CONFIRM_BLOCK_RISKY>>
sendVars == <<AUTO_ACK_SAFETY_CHECKS, original, kwargs, attempt, send_pc, last_err,
              raised_err, granted, acknowledged_ids, calls, sleeps, acks,
              sleep_s, only_rate_limits>>
timeVars == <<sleep_s>>
handleVars == <<issued, received, request, subcall, confirm_sends, turn_kinds>>
exitVars == <<final_line, exit_code>>
scaleVars == <<scale_args, scale_pc, scale_result>>
uiVars == <<_thread, root, last, text_var, drained>>
statusVars == <<status_pc, updates, loop_exit, stop_calls, raised_into_loop>>
indicatorVars == <<enabled, _thread, _queue, root, last, text_var, put_log, drained,
                   status_pc, updates, loop_exit, stop_calls, raised_into_loop>>
runVars == <<settings, ENABLE_SESSION_SUMMARY, last_sent_screenshot, issued, received,
             request, subcall, confirm_sends, turn_kinds, final_line, exit_code>>

----------------------------------------------------------------------------
(* Bounds *)

\* longest message text, in lexical units
MaxLen == 3

\* most quoted tokens in the message of a bad-request error
MaxQuoted == 2

\* most points in the path of a drag action
MaxPath == 3

\* largest coordinate of a point given to scale_point (besides the scenario's)
MaxCoord == 3

\* largest display dimension given to scale_point (besides the scenario's)
MaxDim == 3

\* most calls of status.update inside the loop of one run
MaxUpdates == 3

----------------------------------------------------------------------------
(* Program constants *)

MAX_STEPS == 30
MAX_API_RETRIES == 8

\* Durations are counted in half seconds, the smallest sleep of the client:
\* INITIAL_BACKOFF_SECONDS = 1.0 s, MAX_BACKOFF_SECONDS = 30.0 s, the floor 0.5 s
\* of a sleep and the cap 1.0 s of the jitter.
INITIAL_BACKOFF_SECONDS == 2
MAX_BACKOFF_SECONDS == 60
MinSleep == 1
JitterCap == 2

CONFIRM_MESSAGE == "hai, susumete kudasai."
DenyDeleteMessage == "iie. file no sakujo wa okonaemasen."
DenyOverwriteMessage == "iie. file no uwagaki hozon wa okonaemasen."
SaveAsMessage == "betsumei hozon (Save As) de susumete kudasai."
NoMessage == ""

RISKY_CONFIRM_TERMS ==
    { <<"kounyuu">>, <<"shiharai">>, <<"kessai">>, <<"soukin">>, <<"furikomi">>,
      <<"sakujo">>, <<"format-ja">>, <<"shokika">>, <<"kaijo">>, <<"taikai">>,
      <<"uninstall-ja">>,
      <<"delete">>, <<"purchase">>, <<"payment">>, <<"transfer">>, <<"format">>,
      <<"uninstall">> }

----------------------------------------------------------------------------
(* Text: sequences of lexical units *)

Whitespace == {" "}

Vocab == {"Delete", "erase", "file", "save", "as", "overwrite", "okikae",
          "purchase", "yoroshii"}

\* "sakujo shite yoroshii desu ka?"
DeleteQuestion == <<"sakujo", "shite", "yoroshii", "desuka?">>

RECURSIVE SeqsUpTo(_, _)
SeqsUpTo(S, n) ==
    IF n = 0 THEN {<<>>}
    ELSE LET shorter == SeqsUpTo(S, n - 1)
         IN shorter \cup {Append(s, x) : s \in {t \in shorter : Len(t) = n - 1}, x \in S}

\* longer texts of interest
SaveAsOverwriteQuestion == <<"save", "as", "okikae", "file", "yoroshii">>
EraseFileQuestion == <<"erase", "file", "Should", "I">>

Texts ==
    SeqsUpTo(Vocab, MaxLen)
        \cup {DeleteQuestion, SaveAsOverwriteQuestion, EraseFileQuestion, <<" ">>}

\* str.lower() on one unit
LowerUnit(u) ==
    CASE u = "Delete" -> "delete"
      [] u = "Should" -> "should"
      [] u = "Can"    -> "can"
      [] u = "I"      -> "i"
      [] u = "YES"    -> "yes"
      [] u = "Yes"    -> "yes"
      [] u = "NO"     -> "no"
      [] OTHER        -> u

\* str.upper() on one unit
UpperUnit(u) ==
    CASE u = "yes"    -> "YES"
      [] u = "Yes"    -> "YES"
      [] u = "no"     -> "NO"
      [] u = "delete" -> "DELETE"
      [] u = "Delete" -> "DELETE"
      [] OTHER        -> u

Lower(text) == [i \in 1..Len(text) |-> LowerUnit(text[i])]
Upper(text) == [i \in 1..Len(text) |-> UpperUnit(text[i])]

\* `term in text`
Contains(text, term) ==
    \E i \in 0..(Len(text) - Len(term)) :
        \A j \in 1..Len(term) : text[i + j] = term[j]

AnyIn(terms, text) == \E term \in terms : Contains(text, term)

\* `not text.strip()`
IsBlank(text) == \A i \in 1..Len(text) : text[i] \in Whitespace

\* str.split(): the units that are not whitespace
Split(text) == SelectSeq(text, LAMBDA u : u \notin Whitespace)

----------------------------------------------------------------------------
(* confirmation.py: the confirmation policy *)

\* The permission phrases of the keyword heuristic, matched on the raw text.
ConfirmationPhrases ==
    { <<"Should", "I">>, <<"Can", "I">>, <<"yoroshii">>, <<"susume">>, <<"yoi">>,
      <<"hirakimasuka">>, <<"shimasuka">>, <<"zokkou">>, <<"tsuzuke">> }

_looks_like_confirmation_request_heuristic(text) ==
    IF IsBlank(text) THEN FALSE
    ELSE AnyIn(ConfirmationPhrases, text)

\* What the classifier sub-call can come back with: a reply text, or a failure
\* (unset classifier model, transport error after retries, malformed reply).
ClassifierReplies == { <<>>, <<"YES">>, <<" ", "yes", " ">>, <<"NO">>, <<"Yes", "please">> }
ClassifierOutcomes ==
    [failed : {FALSE}, out : ClassifierReplies] \cup [failed : {TRUE}, out : {<<>>}]

\* Variant: the risk denylist is not consulted before the classifier call.
interpreter_without_denylist(text, outcome) ==
    IF IsBlank(text) THEN FALSE
    ELSE IF outcome.failed THEN _looks_like_confirmation_request_heuristic(text)
    ELSE LET out == Split(Upper(outcome.out))
             first == IF out # <<>> THEN out[1] ELSE ""
         IN first = "YES"

\* Variant: a failed classifier sub-call counts as the answer NO.
interpreter_failure_means_no(text, outcome) ==
    IF IsBlank(text) THEN FALSE
    ELSE IF AUTO_CONFIRM_BLOCK_RISKY /\ AnyIn(RISKY_CONFIRM_TERMS, Lower(text)) THEN FALSE
    ELSE IF outcome.failed THEN FALSE
    ELSE LET out == Split(Upper(outcome.out))
             first == IF out # <<>> THEN out[1] ELSE ""
         IN first = "YES"

_should_auto_confirm_via_interpreter(text, outcome) ==
    IF IsBlank(text) THEN FALSE
    ELSE IF AUTO_CONFIRM_BLOCK_RISKY /\ AnyIn(RISKY_CONFIRM_TERMS, Lower(text)) THEN FALSE
    ELSE IF outcome.failed THEN _looks_like_confirmation_request_heuristic(text)
    ELSE LET out == Split(Upper(outcome.out))
             first == IF out # <<>> THEN out[1] ELSE ""
         IN first = "YES"

\* Variant: the classifier is asked about a blank text too.
CallsClassifier_blank_too(text) ==
    /\ USE_CONFIRM_INTERPRETER_MODEL
    /\ ~(AUTO_CONFIRM_BLOCK_RISKY /\ AnyIn(RISKY_CONFIRM_TERMS, Lower(text)))

\* whether the classifier sub-call is made at all for this text
CallsClassifier(text) ==
    /\ USE_CONFIRM_INTERPRETER_MODEL
    /\ ~IsBlank(text)
    /\ ~(AUTO_CONFIRM_BLOCK_RISKY /\ AnyIn(RISKY_CONFIRM_TERMS, Lower(text)))

file_context_terms ==
    { <<"file">>, <<"folder">>, <<"directory">>, <<"path">>, <<"document">>,
      <<"file-ja">>, <<"folder-ja">>, <<"directory-ja">>, <<"path-ja">>,
      <<"document-ja">>, <<"hozon">> }

save_as_terms ==
    { <<"betsumei", "hozon">>, <<"namae", "wo", "tsukete", "hozon">>,
      <<"namae", "wo", "tsukete-kana", "hozon">>, <<"save", "as">>,
      <<"save", "a", "copy">>, <<"save", "a", "new", "copy">>, <<"save", "copy">>,
      <<"save", "new", "copy">>, <<"save", "as", "new">> }

overwrite_terms_strong ==
    { <<"uwagaki">>, <<"uwagaki", "hozon">>, <<"okikae">>, <<"overwrite">>,
      <<"overwrite", "existing">>, <<"replace", "existing">>,
      <<"replace", "the", "existing">> }

\* the overwrite keywords that count even outside a file context
overwrite_terms_no_context == { <<"uwagaki">>, <<"uwagaki", "hozon">>, <<"overwrite">> }

delete_terms_strong ==
    { <<"sakujo">>, <<"shoukyo">>, <<"gomibako">>, <<"delete">>, <<"unlink">>,
      <<"erase">>, <<"rm", " ">>, <<"rmdir">>, <<"del", " ">> }

delete_terms_soft == { <<"remove">>, <<"remove", "it">>, <<"remove", "the">> }

\* Variant: the strict delete keywords count only in a file context.
classify_strict_delete_gated(text) ==
    IF IsBlank(text) THEN "none"
    ELSE
    LET lowered == Lower(text)
        has_file_context == AnyIn(file_context_terms, lowered)
        save_as_hit == AnyIn(save_as_terms, lowered)
        overwrite_hit0 == AnyIn(overwrite_terms_strong, lowered)
        overwrite_hit ==
            IF overwrite_hit0 /\ ~has_file_context
            THEN AnyIn(overwrite_terms_no_context, lowered)
            ELSE overwrite_hit0
        delete_hit ==
            has_file_context /\ AnyIn(delete_terms_strong \cup delete_terms_soft, lowered)
    IN  IF save_as_hit /\ (overwrite_hit \/ delete_hit) THEN "mixed"
        ELSE IF delete_hit THEN "delete"
        ELSE IF overwrite_hit THEN "overwrite"
        ELSE IF save_as_hit THEN "save_as"
        ELSE "none"

\* Variant: the destructive classes are decided before the mixed class.
classify_destructive_before_mixed(text) ==
    IF IsBlank(text) THEN "none"
    ELSE
    LET lowered == Lower(text)
        has_file_context == AnyIn(file_context_terms, lowered)
        save_as_hit == AnyIn(save_as_terms, lowered)
        overwrite_hit0 == AnyIn(overwrite_terms_strong, lowered)
        overwrite_hit ==
            IF overwrite_hit0 /\ ~has_file_context
            THEN AnyIn(overwrite_terms_no_context, lowered)
            ELSE overwrite_hit0
        delete_hit0 == AnyIn(delete_terms_strong, lowered)
        delete_hit ==
            IF ~delete_hit0 /\ has_file_context
            THEN AnyIn(delete_terms_soft, lowered)
            ELSE delete_hit0
    IN  IF delete_hit THEN "delete"
        ELSE IF overwrite_hit THEN "overwrite"
        ELSE IF save_as_hit /\ (overwrite_hit \/ delete_hit) THEN "mixed"
        ELSE IF save_as_hit THEN "save_as"
        ELSE "none"

\* Variant: the replace keywords count as overwrite outside a file context too.
classify_overwrite_never_gated(text) ==
    IF IsBlank(text) THEN "none"
    ELSE
    LET lowered == Lower(text)
        has_file_context == AnyIn(file_context_terms, lowered)
        save_as_hit == AnyIn(save_as_terms, lowered)
        overwrite_hit == AnyIn(overwrite_terms_strong, lowered)
        delete_hit0 == AnyIn(delete_terms_strong, lowered)
        delete_hit ==
            IF ~delete_hit0 /\ has_file_context
            THEN AnyIn(delete_terms_soft, lowered)
            ELSE delete_hit0
    IN  IF save_as_hit /\ (overwrite_hit \/ delete_hit) THEN "mixed"
        ELSE IF delete_hit THEN "delete"
        ELSE IF overwrite_hit THEN "overwrite"
        ELSE IF save_as_hit THEN "save_as"
        ELSE "none"

_classify_file_operation_confirmation(text) ==
    IF IsBlank(text) THEN "none"
    ELSE
    LET lowered == Lower(text)
        has_file_context == AnyIn(file_context_terms, lowered)
        save_as_hit == AnyIn(save_as_terms, lowered)
        overwrite_hit0 == AnyIn(overwrite_terms_strong, lowered)
        overwrite_hit ==
            IF overwrite_hit0 /\ ~has_file_context
            THEN AnyIn(overwrite_terms_no_context, lowered)
            ELSE overwrite_hit0
        delete_hit0 == AnyIn(delete_terms_strong, lowered)
        delete_hit ==
            IF ~delete_hit0 /\ has_file_context
            THEN AnyIn(delete_terms_soft, lowered)
            ELSE delete_hit0
    IN  IF save_as_hit /\ (overwrite_hit \/ delete_hit) THEN "mixed"
        ELSE IF delete_hit THEN "delete"
        ELSE IF overwrite_hit THEN "overwrite"
        ELSE IF save_as_hit THEN "save_as"
        ELSE "none"

\* Variant: every message of a turn without action is taken as a permission request.
NeedsConfirm_always(text, outcome) == TRUE

\* the permission-intent step of get_or_confirm_computer_call
NeedsConfirm(text, outcome) ==
    IF USE_CONFIRM_INTERPRETER_MODEL
    THEN _should_auto_confirm_via_interpreter(text, outcome)
    ELSE _looks_like_confirmation_request_heuristic(text)

\* Variant: an overwrite confirmation is answered with the affirmative message.
MessageFor_approves_overwrite(op) ==
    CASE op = "delete"    -> DenyDeleteMessage
      [] op \in {"save_as", "mixed"} -> SaveAsMessage
      [] OTHER -> CONFIRM_MESSAGE

\* the message get_or_confirm_computer_call synthesizes for a file-operation class
MessageFor(op) ==
    CASE op = "delete"    -> DenyDeleteMessage
      [] op = "overwrite" -> DenyOverwriteMessage
      [] op \in {"save_as", "mixed"} -> SaveAsMessage
      [] OTHER -> CONFIRM_MESSAGE

\* the verdict that sending a message amounts to
VerdictFor(op) ==
    CASE op \in {"delete", "overwrite"} -> "auto_deny"
      [] op \in {"save_as", "mixed"}    -> "redirect"
      [] OTHER -> "auto_approve"

----------------------------------------------------------------------------
(* The actions the decision service asks for (main.py, actions.py) *)

\* A number as the service sends it, written as a string: an int, a float, or
\* None when the field is absent.
IntValues == {"0", "3", "10", "20", "30"}
\* isinstance(v, int)
IsInt(v) == v \in IntValues

\* An action, with the fields execute_action reads by getattr; a field the action
\* does not carry reads as its getattr default.  path and keys are lists and text
\* is a str, as the service's schema has them.
NoAction ==
    [type |-> "None", x |-> "None", y |-> "None", scroll_x |-> "0", scroll_y |-> "0",
     path |-> <<>>, keys |-> <<>>, text |-> <<>>]
Act(type) == [NoAction EXCEPT !.type = type]

XYs == { <<"10", "20">>, <<"1.5", "20">>, <<"10", "None">> }
PointerActions ==
    { [Act(t) EXCEPT !.x = c[1], !.y = c[2]] :
          t \in {"click", "double_click", "move"}, c \in XYs }
ScrollActions ==
    { [Act("scroll") EXCEPT !.x = c[1], !.y = c[2], !.scroll_y = sy] :
          c \in XYs, sy \in {"0", "3", "2.5"} }
Points == [x : {"10", "30", "1.5"}, y : {"20"}]
DragActions == { [Act("drag") EXCEPT !.path = p] : p \in SeqsUpTo(Points, MaxPath) }
KeyLists == { <<>>, <<"a">>, <<"control", "c">>, <<" ">> }
KeypressActions == { [Act("keypress") EXCEPT !.keys = k] : k \in KeyLists }
\* typed texts, as sequences of characters; CR and LF stand for the two newline
\* characters
TypedTexts == { <<>>, <<"p", "w", "1">>, <<"p", "w", "2">>, <<"a", "CR", "LF", "b">> }
TypeActions == { [Act("type") EXCEPT !.text = t] : t \in TypedTexts }
Actions ==
    PointerActions \cup ScrollActions \cup DragActions \cup KeypressActions
        \cup TypeActions \cup {Act("wait"), Act("screenshot"), Act("zoom"), NoAction}

SupportedActionTypes ==
    {"screenshot", "click", "double_click", "move", "drag", "scroll", "type",
     "wait", "keypress"}

----------------------------------------------------------------------------
(* main.py: execute_action, with the actions.py functions it calls *)

EVIDENCE_BEFORE_AFTER_FOR_INPUT == TRUE

\* a screenshot: what it is taken for, and how many pointer/keyboard calls of
\* the step's action had been made when it was taken
Capture(tail, n) == [tail |-> tail, after |-> n]
NoScreenshot == Capture("None", 0)

Outcome(err, eff, caps, shot, lg) ==
    [error |-> err, effects |-> eff, captures |-> caps, screenshot_path |-> shot,
     log |-> lg]
\* a ValueError leaves execute_action: nothing is returned
Raised(err, eff, caps) == Outcome(err, eff, caps, NoScreenshot, <<>>)

\* the perform_* functions of actions.py return (px, py); execute_action unpacks
\* their result into px, py, screen_w, screen_h
PerformReturnArity == 2
UnpackArity == 4

\* what follows the pyautogui calls of a pointer action in execute_action: the
\* unpacking of the result, the log entry, the screenshot
AfterPointerCalls(action, eff) ==
    IF UnpackArity # PerformReturnArity
    THEN Raised("not enough values to unpack", eff, <<>>)
    ELSE LET shot == Capture("after", Len(eff))
         IN Outcome("", eff, <<shot>>, shot, <<[kind |-> action.type]>>)

PointerCall(type) ==
    CASE type = "click"        -> "click"
      [] type = "double_click" -> "doubleClick"
      [] type = "move"         -> "moveTo"

\* perform_scroll: perform_move, then scroll and hscroll for the amounts that are not 0
ScrollCalls(action) ==
    <<"moveTo">> \o (IF action.scroll_y # "0" THEN <<"scroll">> ELSE <<>>)
                 \o (IF action.scroll_x # "0" THEN <<"hscroll">> ELSE <<>>)

ValidPoint(p) == IsInt(p.x) /\ IsInt(p.y)

\* Variant: a point that is not a pair of ints makes the whole path invalid.
DragPoints_all_or_nothing(path) ==
    IF \A i \in 1..Len(path) : ValidPoint(path[i]) THEN path ELSE <<>>

\* perform_drag: the points of the path that are pairs of ints; the others are
\* skipped
DragPoints(path) == SelectSeq(path, ValidPoint)

\* perform_drag: press at the first point, move through the others, release
DragCalls(points) ==
    <<"moveTo", "mouseDown">> \o [i \in 1..(Len(points) - 1) |-> "moveTo"]
        \o <<"mouseUp">>

\* utils.normalize_key_name, for the key names KeyLists holds: an alias is
\* replaced by its unified name
normalize_key_name(key) ==
    CASE key = "control" -> "ctrl"
      [] OTHER           -> key

\* perform_keypress: the keys that are not blank, normalised
NormKeys(keys) ==
    LET kept == SelectSeq(keys, LAMBDA k : k # " ")
    IN [i \in 1..Len(kept) |-> normalize_key_name(kept[i])]

\* utils.format_typed_text_for_log: newlines are unified and escaped, a text
\* longer than max_chars is cut and marked
RECURSIVE UnifyNewlines(_)
UnifyNewlines(t) ==
    IF t = <<>> THEN <<>>
    ELSE IF Len(t) >= 2 /\ t[1] = "CR" /\ t[2] = "LF"
         THEN <<"LF">> \o UnifyNewlines(SubSeq(t, 3, Len(t)))
    ELSE IF t[1] = "CR" THEN <<"LF">> \o UnifyNewlines(Tail(t))
    ELSE <<t[1]>> \o UnifyNewlines(Tail(t))

RECURSIVE EscapeNewlines(_)
EscapeNewlines(t) ==
    IF t = <<>> THEN <<>>
    ELSE (IF t[1] = "LF" THEN <<"backslash", "n">> ELSE <<t[1]>>)
             \o EscapeNewlines(Tail(t))

format_typed_text_for_log(text, max_chars) ==
    LET compact == EscapeNewlines(UnifyNewlines(text))
    IN IF Len(compact) > max_chars
       THEN SubSeq(compact, 1, max_chars) \o <<"...">>
       ELSE compact

\* max_chars=200 at the call in execute_action
TypedTextMaxChars == 200

\* detail=f"type chars={len(text)} text='{logged}'"
TypeLogEntry(text) ==
    [kind |-> "type", chars |-> Len(text),
     text |-> format_typed_text_for_log(text, TypedTextMaxChars)]

\* the screenshots before an input action, when EVIDENCE_BEFORE_AFTER_FOR_INPUT
\* Variant: no screenshot is taken before an input action.
BeforeEvidence_never(tail) == <<>>

BeforeEvidence(tail) ==
    IF EVIDENCE_BEFORE_AFTER_FOR_INPUT THEN <<Capture(tail, 0)>> ELSE <<>>

\* Variant: the screenshot taken before the input is the one returned.
ReturnedScreenshot_before(before, after) ==
    IF before # <<>> THEN before[1] ELSE after

\* screenshot_path = after_path: of the screenshots around an input action, the
\* one taken after it is returned
ReturnedScreenshot(before, after) == after

\* Variant: an action of an unknown kind is answered with a screenshot.
UnsupportedAction_screenshot(action) ==
    LET shot == Capture("screenshot", 0)
    IN Outcome("", <<>>, <<shot>>, shot, <<[kind |-> "screenshot"]>>)

\* the else branch: raise ValueError(f"Unsupported action type: {action_type}")
UnsupportedAction(action) == Raised("Unsupported action type", <<>>, <<>>)

execute_action(action) ==
    CASE action.type = "screenshot" ->
           LET shot == Capture("screenshot", 0)
           IN Outcome("", <<>>, <<shot>>, shot, <<[kind |-> "screenshot"]>>)
      [] action.type \in {"click", "double_click", "move"} ->
           IF ~IsInt(action.x) \/ ~IsInt(action.y)
           THEN Raised("Invalid coordinates", <<>>, <<>>)
           ELSE AfterPointerCalls(action, <<PointerCall(action.type)>>)
      [] action.type = "drag" ->
           IF action.path = <<>>
           THEN Raised("Invalid drag path", <<>>, <<>>)
           ELSE IF Len(DragPoints(action.path)) < 2
           THEN Raised("drag.path must contain at least 2 points", <<>>, <<>>)
           ELSE AfterPointerCalls(action, DragCalls(DragPoints(action.path)))
      [] action.type = "scroll" ->
           IF ~IsInt(action.x) \/ ~IsInt(action.y)
           THEN Raised("Invalid coordinates", <<>>, <<>>)
           ELSE IF ~IsInt(action.scroll_x) \/ ~IsInt(action.scroll_y)
           THEN Raised("Invalid scroll values", <<>>, <<>>)
           ELSE AfterPointerCalls(action, ScrollCalls(action))
      [] action.type = "type" ->
           LET eff == IF action.text = <<>> THEN <<>> ELSE <<"paste">>
               shot == Capture("after_type", Len(eff))
           IN Outcome("", eff, BeforeEvidence("before_type") \o <<shot>>,
                      ReturnedScreenshot(BeforeEvidence("before_type"), shot),
                      <<TypeLogEntry(action.text)>>)
      [] action.type = "wait" ->
           LET shot == Capture("after", 0)
           IN Outcome("", <<>>, <<shot>>, shot, <<[kind |-> "wait"]>>)
      [] action.type = "keypress" ->
           IF action.keys = <<>>
           THEN Raised("Invalid keypress keys", <<>>, <<>>)
           ELSE IF NormKeys(action.keys) = <<>>
           THEN Raised("No keys provided for keypress", <<>>,
                       BeforeEvidence("before_keypress"))
           ELSE LET eff == IF Len(NormKeys(action.keys)) = 1
                           THEN <<"press">> ELSE <<"hotkey">>
                    shot == Capture("after_keypress", Len(eff))
                IN Outcome("", eff, BeforeEvidence("before_keypress") \o <<shot>>,
                           ReturnedScreenshot(BeforeEvidence("before_keypress"), shot),
                           <<[kind |-> "keypress"]>>)
      [] OTHER -> UnsupportedAction(action)

----------------------------------------------------------------------------
(* The decision service as seen by the loop *)

\* a response without computer call
NoCall == [call_id |-> "", action |-> NoAction]
\* the computer calls the service answers with inside a run of the loop: none, a
\* keypress, a typed text, a click, an action of an unknown kind
Calls ==
    { NoCall,
      [call_id |-> "call_1", action |-> [Act("keypress") EXCEPT !.keys = <<"control", "c">>]],
      [call_id |-> "call_2", action |-> [Act("type") EXCEPT !.text = <<"p", "w", "1">>]],
      [call_id |-> "call_3", action |-> [Act("click") EXCEPT !.x = "10", !.y = "20"]],
      [call_id |-> "call_4", action |-> Act("zoom")] }

\* the message texts the service answers with inside a run of the loop
LoopTexts == { <<>>, <<"yoroshii">>, DeleteQuestion, <<"okikae", "file", "yoroshii">> }

\* the computer calls of one response, in output order: none, one, or two
\* executable ones in either order
CallLists ==
    {<<>>} \cup {<<c>> : c \in Calls \ {NoCall}}
           \cup {<<c, d>> : c, d \in {k \in Calls : k.call_id \in {"call_1", "call_2"}}}

\* Variant: the last computer call of the output is the one taken.
get_last_computer_call(r) ==
    IF r.calls = <<>> THEN NoCall ELSE r.calls[Len(r.calls)]

\* calls[0] if calls else None
get_first_computer_call(r) ==
    IF r.calls = <<>> THEN NoCall ELSE r.calls[1]

\* what the action model answers with: its computer calls and a message
Responses == [calls : CallLists, text : LoopTexts]
\* responses_create_with_retry raised (retries exhausted or a non-retryable error)
TransportError == [error |-> "transport"]
SendOutcomes == Responses \cup {TransportError}

\* Response ids are opaque and never repeat: the n-th response the service issues
\* in a run, whichever model answers, is given the id n.  No id at all is 0.
NoId == 0
\* the response as the loop holds it: what the model answered, under its id
WithId(r, n) == [calls |-> r.calls, text |-> r.text, id |-> n]

\* Variant: the request carries no conversation handle.
ActionRequest_without_handle(r, input) ==
    [model |-> "computer_use", previous_response_id |-> NoId, input |-> input]

\* a request to the action model continuing the conversation after response r:
\* previous_response_id=r.id
ActionRequest(r, input) ==
    [model |-> "computer_use", previous_response_id |-> r.id, input |-> input]

\* the initial request: no previous_response_id
InitialActionRequest ==
    [model |-> "computer_use", previous_response_id |-> NoId, input |-> "instruction"]
NoRequest == [model |-> "none", previous_response_id |-> NoId, input |-> "none"]

\* Variant: the sub-call continues the conversation of the action model.
SubRequest_with_handle(model, r) == [model |-> model, previous_response_id |-> r.id]

\* a classifier or summary request made while r is the latest response: model and
\* input only, no previous_response_id
SubRequest(model, r) == [model |-> model, previous_response_id |-> NoId]
NoSubcall == [model |-> "none", previous_response_id |-> NoId]

----------------------------------------------------------------------------
(* main.py: how main ends *)

\* the line main prints when it leaves the loop for this reason; "" when it
\* prints none (the for loop running out, an exception leaving main)
FinalLine(reason) ==
    CASE reason = "no_call"       -> "No computer call found; stopping."
      [] reason = "value_error"   -> "[step] error; stopping."
      [] reason = "no_screenshot" -> "[step] No screenshot available; stopping."
      [] OTHER                    -> ""

\* main returns 0 after the loop; an exception leaving main ends the process
\* with a failure code
ExitCode(reason) ==
    IF reason \in {"no_call", "value_error", "no_screenshot", "budget"}
    THEN "0"
    ELSE "1"

Stop(reason) ==
    /\ pc' = "done"
    /\ halt' = reason
    /\ final_line' = FinalLine(reason)
    /\ exit_code' = ExitCode(reason)

GoOn(next) ==
    /\ pc' = next
    /\ UNCHANGED <<halt, final_line, exit_code>>

----------------------------------------------------------------------------
(* main.py: main up to the loop *)

AllSet ==
    [message |-> TRUE, computer_use_model |-> TRUE, summary_model |-> TRUE,
     confirm_model |-> TRUE]
Settings ==
    [message : BOOLEAN, computer_use_model : BOOLEAN, summary_model : BOOLEAN,
     confirm_model : BOOLEAN]

\* Variant: the classifier model name is not required.
MissingSetting_ignores_confirm_model(env) ==
    \/ ~env.message
    \/ ~env.computer_use_model
    \/ ENABLE_SESSION_SUMMARY /\ ~env.summary_model

\* main's check of the message, then init_runtime_from_env's _require_env calls
MissingSetting(env) ==
    \/ ~env.message
    \/ ~env.computer_use_model
    \/ ENABLE_SESSION_SUMMARY /\ ~env.summary_model
    \/ USE_CONFIRM_INTERPRETER_MODEL /\ ~env.confirm_model

Startup ==
    /\ pc = "startup"
    /\ IF MissingSetting(settings)
       THEN Stop("config_error")
       ELSE GoOn("initial")
    /\ UNCHANGED <<configVars, scaleVars, indicatorVars, sendVars, policyVars, response, computer_call, step,
                   executed, stepVars, submission, submissions, settings,
                   ENABLE_SESSION_SUMMARY, last_sent_screenshot, handleVars>>

InitialRequest ==
    /\ pc = "initial"
    /\ request' = InitialActionRequest
    /\ \E r \in SendOutcomes :
         IF r = TransportError
         THEN /\ Stop("exception")
              /\ UNCHANGED <<response, issued, received>>
         ELSE /\ response' = WithId(r, issued + 1)
              /\ issued' = issued + 1
              /\ received' = issued + 1
              /\ GoOn("confirm")
    /\ UNCHANGED <<configVars, scaleVars, indicatorVars, sendVars, policyVars, computer_call, step, executed,
                   stepVars, submission, submissions, settings,
                   ENABLE_SESSION_SUMMARY, last_sent_screenshot, subcall,
                   confirm_sends, turn_kinds>>

----------------------------------------------------------------------------
(* confirmation.py: get_or_confirm_computer_call, called by main at the top of
   each loop iteration; main stops when it returns no computer call *)

PolicyNotRun ==
    /\ needs_confirm' = FALSE
    /\ file_op' = "none"
    /\ message' = NoMessage

\* Variant: a confirmation answered without action is followed by another round.
AfterConfirmation_asks_again(call) == IF call = NoCall THEN "confirm" ELSE "record"

\* main after get_or_confirm_computer_call has sent its message: the loop body
\* goes on with the call of the answer, or main stops when there is none
AfterConfirmation(call) == IF call = NoCall THEN "done" ELSE "record"

\* what the turn at the top of the loop carried: an action (its type), a
\* permission request, or neither
TurnKind(r, asks) ==
    IF get_first_computer_call(r) # NoCall THEN get_first_computer_call(r).action.type
    ELSE IF asks THEN "ask"
    ELSE "none"

GetOrConfirmComputerCall ==
    /\ pc = "confirm"
    /\ output_texts' = response.text
    /\ UNCHANGED <<configVars, scaleVars, indicatorVars, sendVars, step, executed, stepVars, submission,
                   submissions, settings, ENABLE_SESSION_SUMMARY,
                   last_sent_screenshot>>
    /\ IF get_first_computer_call(response) # NoCall
       THEN /\ computer_call' = get_first_computer_call(response)
            /\ verdict' = "has_call"
            /\ PolicyNotRun
            /\ GoOn("record")
            /\ turn_kinds' = Append(turn_kinds, TurnKind(response, FALSE))
            /\ subcall' = NoSubcall
            /\ interpreter' = "not_called"
            /\ UNCHANGED <<response, issued, received, request, confirm_sends>>
       ELSE IF ~AUTO_CONFIRM
       THEN /\ computer_call' = NoCall
            /\ verdict' = "no_action_needed"
            /\ PolicyNotRun
            /\ Stop("no_call")
            /\ turn_kinds' = Append(turn_kinds, TurnKind(response, FALSE))
            /\ subcall' = NoSubcall
            /\ interpreter' = "not_called"
            /\ UNCHANGED <<response, issued, received, request, confirm_sends>>
       ELSE \E outcome \in IF CallsClassifier(response.text)
                           THEN ClassifierOutcomes
                           ELSE {[failed |-> TRUE, out |-> <<>>]} :
            LET answered == CallsClassifier(response.text) /\ ~outcome.failed
                issued1 == IF answered THEN issued + 1 ELSE issued
            IN
            /\ subcall' = IF CallsClassifier(response.text)
                          THEN SubRequest("classifier", response)
                          ELSE NoSubcall
            /\ interpreter' = IF ~CallsClassifier(response.text) THEN "not_called"
                              ELSE IF outcome.failed THEN "failed"
                              ELSE "answered"
            /\ turn_kinds' = Append(turn_kinds,
                                    TurnKind(response, NeedsConfirm(response.text, outcome)))
            /\ IF ~NeedsConfirm(response.text, outcome)
               THEN /\ computer_call' = NoCall
                    /\ verdict' = "no_action_needed"
                    /\ PolicyNotRun
                    /\ Stop("no_call")
                    /\ issued' = issued1
                    /\ UNCHANGED <<response, received, request, confirm_sends>>
               ELSE LET op == _classify_file_operation_confirmation(response.text)
                    IN /\ needs_confirm' = TRUE
                       /\ file_op' = op
                       /\ message' = MessageFor(op)
                       /\ verdict' = VerdictFor(op)
                       /\ request' = ActionRequest(response, "message")
                       /\ confirm_sends' = confirm_sends + 1
                       /\ \E r2 \in SendOutcomes :
                            IF r2 = TransportError
                            THEN /\ Stop("exception")
                                 /\ issued' = issued1
                                 /\ UNCHANGED <<response, computer_call, received>>
                            ELSE /\ response' = WithId(r2, issued1 + 1)
                                 /\ issued' = issued1 + 1
                                 /\ received' = issued1 + 1
                                 /\ computer_call' = get_first_computer_call(r2)
                                 /\ IF AfterConfirmation(get_first_computer_call(r2)) = "done"
                                    THEN Stop("no_call")
                                    ELSE GoOn(AfterConfirmation(get_first_computer_call(r2)))

----------------------------------------------------------------------------
(* main.py: the loop body after the computer call is derived *)

\* the functions debug.py defines
DebugFunctions ==
    {"_build_debug_note", "_build_debug_note_summary", "_write_debug_text_file",
     "save_model_debug_image"}

\* main records the response whose call it is about to execute: the session
\* summary (a sub-call of the summary model, whose failure is caught), then the
\* debug text next to the screenshot sent last, by debug.save_model_debug_text
RecordResponse ==
    /\ pc = "record"
    /\ IF ENABLE_SESSION_SUMMARY
       THEN /\ subcall' = SubRequest("summary", response)
            /\ \E answered \in BOOLEAN :
                 issued' = IF answered THEN issued + 1 ELSE issued
       ELSE /\ subcall' = NoSubcall
            /\ UNCHANGED issued
    /\ IF last_sent_screenshot # NoScreenshot
          /\ "save_model_debug_text" \notin DebugFunctions
       THEN Stop("attribute_error")
       ELSE GoOn("execute")
    /\ UNCHANGED <<configVars, scaleVars, indicatorVars, sendVars, policyVars, response, computer_call, step,
                   executed, stepVars, submission, submissions, settings,
                   ENABLE_SESSION_SUMMARY, last_sent_screenshot, received, request,
                   confirm_sends, turn_kinds>>

ExecuteAction ==
    /\ pc = "execute"
    /\ UNCHANGED <<configVars, scaleVars, indicatorVars, sendVars, policyVars, response, computer_call, step,
                   submission, submissions, settings, ENABLE_SESSION_SUMMARY,
                   last_sent_screenshot, issued, received, request, confirm_sends,
                   turn_kinds>>
    /\ subcall' = NoSubcall
    /\ LET r == execute_action(computer_call.action)
       IN /\ error' = r.error
          /\ effects' = r.effects
          /\ captures' = r.captures
          /\ screenshot_path' = r.screenshot_path
          /\ log' = r.log
          /\ IF r.error # ""
             THEN /\ Stop("value_error")
                  /\ UNCHANGED executed
             ELSE IF r.screenshot_path = NoScreenshot
             THEN /\ Stop("no_screenshot")
                  /\ UNCHANGED executed
             ELSE /\ executed' = executed + 1
                  /\ GoOn("submit")

NoSubmission == [call_id |-> "", image |-> NoScreenshot]

\* Variant: the submission carries the call id of an earlier step.
SubmissionFor_stale_call_id(call, shot) == [call_id |-> "call_1", image |-> shot]

\* the computer_call_output item: last_call_id and the screenshot
SubmissionFor(call, shot) == [call_id |-> call.call_id, image |-> shot]

\* Variant: the loop counter advances by two.
NextStep_skips(s) == s + 2

\* for step in range(1, MAX_STEPS + 1)
NextStep(s) == s + 1

SubmitEvidence ==
    /\ pc = "submit"
    /\ UNCHANGED <<configVars, scaleVars, indicatorVars, sendVars, policyVars, computer_call, executed, stepVars,
                   settings, ENABLE_SESSION_SUMMARY, turn_kinds>>
    /\ submission' = SubmissionFor(computer_call, screenshot_path)
    /\ submissions' = submissions + 1
    /\ request' = ActionRequest(response, "evidence")
    /\ subcall' = NoSubcall
    /\ \E r \in SendOutcomes :
         IF r = TransportError
         THEN /\ Stop("exception")
              /\ UNCHANGED <<response, step, issued, received, last_sent_screenshot,
                             confirm_sends>>
         ELSE /\ response' = WithId(r, issued + 1)
              /\ issued' = issued + 1
              /\ received' = issued + 1
              /\ last_sent_screenshot' = screenshot_path
              /\ IF step < MAX_STEPS
                 THEN /\ step' = NextStep(step)
                      /\ confirm_sends' = 0
                      /\ GoOn("confirm")
                 ELSE /\ Stop("budget")
                      /\ UNCHANGED <<step, confirm_sends>>

----------------------------------------------------------------------------
(* client.py: the transport/retry client, one send (responses_create_with_retry) *)

\* A safety check id is a quoted token with the prefix cu_sc_; a quoted token is
\* written <<prefix, rest>>.
SafetyPrefix == "cu_sc_"
QuotedTokens == { <<"cu_sc_", "1">>, <<"cu_sc_", "2">>, <<"req_", "9">> }

\* The detail of a bad-request error, as far as the client reads it: whether it
\* holds the phrase "unacknowledged safety check", and its quoted tokens in order.
\* The service names each open check once, so the quoted tokens are distinct.
QuotedSeqs ==
    {q \in SeqsUpTo(QuotedTokens, MaxQuoted) :
        \A i, j \in 1..Len(q) : q[i] = q[j] => i = j}
BadRequestMessages == [phrase : BOOLEAN, quoted : QuotedSeqs]
NoDetail == [phrase |-> FALSE, quoted |-> <<>>]

NoRetryAfter == -1
\* Retry-After as the server sends it: absent, 0 s, 2 s, 100 s
RetryAfterValues == {NoRetryAfter, 0, 4, 200}
BadRequestErrors ==
    [kind : {"BadRequestError"}, message : BadRequestMessages, status : {400},
     retry_after : {NoRetryAfter}]
RateLimitErrors ==
    [kind : {"RateLimitError"}, message : {NoDetail}, status : {429},
     retry_after : RetryAfterValues]
APIConnectionErrors ==
    [kind : {"APIConnectionError"}, message : {NoDetail}, status : {0},
     retry_after : {NoRetryAfter}]
APIStatusErrors ==
    [kind : {"APIStatusError"}, message : {NoDetail}, status : {404, 500, 503},
     retry_after : {NoRetryAfter}]
NoError == [kind |-> "none", message |-> NoDetail, status |-> 0, retry_after |-> NoRetryAfter]

\* Variant: "not found" is retried as well.
RetryableStatus_with_404 == {404, 500, 502, 503, 504}

\* `if status not in (500, 502, 503, 504): raise`
RetryableStatus == {500, 502, 503, 504}

\* The requests the callers pass: the initial request, an evidence submission,
\* and a list holding a call-output item that already carries an acknowledged
\* list, another item and a plain call-output item.
SystemItem == [role |-> "system", content |-> "guidance"]
UserItem == [role |-> "user", content |-> "instruction"]
CallOutput ==
    [call_id |-> "call_1", type |-> "computer_call_output", output |-> "image_1"]
CallOutputAcked ==
    [call_id |-> "call_0", type |-> "computer_call_output", output |-> "image_0",
     acknowledged_safety_checks |-> << [id |-> <<"cu_sc_", "0">>] >>]
Inputs == { <<SystemItem, UserItem>>, <<CallOutput>>, <<CallOutputAcked, UserItem, CallOutput>> }
Requests ==
    [model : {"computer-use"}, previous_response_id : {"resp_1"}, tools : {"windows"},
     truncation : {"auto"}, input : Inputs]

\* Variant: only the first quoted token is taken.
extract_first_only(err) ==
    IF ~err.message.phrase THEN <<>>
    ELSE LET ids == SelectSeq(err.message.quoted, LAMBDA q : q[1] = SafetyPrefix)
         IN IF ids = <<>> THEN <<>> ELSE <<ids[1]>>

\* Variant: the phrase "unacknowledged safety check" is not required.
extract_without_phrase(err) ==
    SelectSeq(err.message.quoted, LAMBDA q : q[1] = SafetyPrefix)

_extract_unacknowledged_safety_check_ids(err) ==
    IF ~err.message.phrase THEN <<>>
    ELSE SelectSeq(err.message.quoted, LAMBDA q : q[1] = SafetyPrefix)

\* what the operator types at the prompt
OperatorAnswers == {"y", " Yes ", "n"}
\* .strip().lower() of the answer
StripLower(a) ==
    CASE a = " Yes " -> "yes"
      [] a = "Y"     -> "y"
      [] OTHER       -> a

_confirm_ack_safety_checks(ids, answer) ==
    IF ids = <<>> THEN FALSE
    ELSE IF AUTO_ACK_SAFETY_CHECKS THEN TRUE
    ELSE StripLower(answer) \in {"y", "yes"}

\* whether the operator is prompted for these ids
AsksOperator(ids) == ids # <<>> /\ ~AUTO_ACK_SAFETY_CHECKS

IsCallOutput(item) == "type" \in DOMAIN item /\ item.type = "computer_call_output"
HasAcknowledged(item) == "acknowledged_safety_checks" \in DOMAIN item

\* Variant: the acknowledged list is written on every call-output item, also on
\* one that already carries a list.
add_acknowledged_overwriting(input_param, ids) ==
    IF ids = <<>> THEN input_param
    ELSE
    LET acknowledged == [i \in 1..Len(ids) |-> [id |-> ids[i]]]
        new_item(item) ==
            [f \in DOMAIN item \cup {"acknowledged_safety_checks"} |->
                IF f = "acknowledged_safety_checks" THEN acknowledged ELSE item[f]]
    IN  [i \in 1..Len(input_param) |->
            IF IsCallOutput(input_param[i])
            THEN new_item(input_param[i])
            ELSE input_param[i]]

_add_acknowledged_safety_checks_to_input(input_param, ids) ==
    IF ids = <<>> THEN input_param
    ELSE
    LET acknowledged == [i \in 1..Len(ids) |-> [id |-> ids[i]]]
        new_item(item) ==
            [f \in DOMAIN item \cup {"acknowledged_safety_checks"} |->
                IF f = "acknowledged_safety_checks" THEN acknowledged ELSE item[f]]
    IN  [i \in 1..Len(input_param) |->
            IF IsCallOutput(input_param[i]) /\ ~HasAcknowledged(input_param[i])
            THEN new_item(input_param[i])
            ELSE input_param[i]]

\* Variant: the resubmission after an acknowledgment does not use up an attempt.
AttemptAfterAck_same(a) == a

\* `continue` in `for attempt in range(0, MAX_API_RETRIES + 1)`
AttemptAfterAck(a) == a + 1

\* Variant: the loop runs one iteration more.
Attempting_one_more == send_pc = "attempt" /\ attempt <= MAX_API_RETRIES + 1

\* the body of `for attempt in range(0, MAX_API_RETRIES + 1)` is entered
Attempting == send_pc = "attempt" /\ attempt <= MAX_API_RETRIES

\* Variant: the handlers give up one attempt early.
RetriesExhausted_early(a) == a + 1 >= MAX_API_RETRIES

\* `if attempt >= MAX_API_RETRIES: raise` in the handlers that back off
RetriesExhausted(a) == a >= MAX_API_RETRIES

\* the handler re-raises the error it caught
Reraise(e) ==
    /\ send_pc' = "raised"
    /\ raised_err' = e
    /\ UNCHANGED <<kwargs, attempt, sleeps, acks, acknowledged_ids, timeVars>>

Min(a, b) == IF a <= b THEN a ELSE b
Max(a, b) == IF a >= b THEN a ELSE b

\* backoff = min(MAX_BACKOFF_SECONDS, INITIAL_BACKOFF_SECONDS * (2**attempt))
Backoff(a) == Min(MAX_BACKOFF_SECONDS, INITIAL_BACKOFF_SECONDS * (2 ^ a))

\* jitter = random.uniform(0.0, min(1.0, backoff)), in half seconds
Jitters(backoff) == 0..Min(JitterCap, backoff)

\* Variant: the sleep is not clamped.
ClampSleep_none(x) == x

\* max(0.5, min(MAX_BACKOFF_SECONDS, sleep_s))
ClampSleep(x) == Max(MinSleep, Min(MAX_BACKOFF_SECONDS, x))

\* Variant: the server's Retry-After is ignored.
RateLimitSleep_ignores_hint(e, a, jitter) == ClampSleep(Backoff(a) + jitter)

\* sleep_s = retry_after if retry_after is not None else (backoff + jitter), clamped
RateLimitSleep(e, a, jitter) ==
    ClampSleep(IF e.retry_after # NoRetryAfter THEN e.retry_after
               ELSE Backoff(a) + jitter)

\* the sleep after a connection error or a retryable status error
BackoffSleep(a, jitter) == ClampSleep(Backoff(a) + jitter)

\* the handler sleeps and the loop goes to the next attempt
SleepAndRetry(sleep) ==
    /\ sleeps' = sleeps + 1
    /\ sleep_s' = sleep
    /\ attempt' = attempt + 1
    /\ UNCHANGED <<send_pc, raised_err, kwargs, acks, acknowledged_ids>>

CreateSucceeds ==
    /\ Attempting
    /\ calls' = calls + 1
    /\ send_pc' = "returned"
    /\ UNCHANGED <<configVars, scaleVars, indicatorVars, loopVars, policyVars, runVars, AUTO_ACK_SAFETY_CHECKS, original,
                   kwargs, attempt, last_err, raised_err, granted, acknowledged_ids,
                   sleeps, acks, timeVars, only_rate_limits>>

CreateBadRequest ==
    /\ Attempting
    /\ calls' = calls + 1
    /\ only_rate_limits' = FALSE
    /\ UNCHANGED <<configVars, scaleVars, indicatorVars, loopVars, policyVars, runVars, AUTO_ACK_SAFETY_CHECKS, original>>
    /\ \E e \in BadRequestErrors :
       \E answer \in IF AsksOperator(_extract_unacknowledged_safety_check_ids(e))
                      THEN OperatorAnswers ELSE {""} :
         LET ids == _extract_unacknowledged_safety_check_ids(e)
         IN /\ last_err' = e
            /\ IF ids = <<>> \/ ~_confirm_ack_safety_checks(ids, answer)
               THEN /\ granted' = FALSE
                    /\ Reraise(e)
               ELSE /\ granted' = TRUE
                    /\ kwargs' = [kwargs EXCEPT !.input =
                           _add_acknowledged_safety_checks_to_input(kwargs.input, ids)]
                    /\ acks' = acks + 1
                    /\ acknowledged_ids' =
                           acknowledged_ids \cup {ids[i] : i \in 1..Len(ids)}
                    /\ attempt' = AttemptAfterAck(attempt)
                    /\ UNCHANGED <<send_pc, raised_err, sleeps, timeVars>>

CreateRateLimited ==
    /\ Attempting
    /\ calls' = calls + 1
    /\ granted' = FALSE
    /\ UNCHANGED <<configVars, scaleVars, indicatorVars, loopVars, policyVars, runVars, AUTO_ACK_SAFETY_CHECKS, original,
                   only_rate_limits>>
    /\ \E e \in RateLimitErrors :
         /\ last_err' = e
         /\ IF RetriesExhausted(attempt) THEN Reraise(e)
            ELSE \E jitter \in Jitters(Backoff(attempt)) :
                    SleepAndRetry(RateLimitSleep(e, attempt, jitter))

CreateConnectionError ==
    /\ Attempting
    /\ calls' = calls + 1
    /\ granted' = FALSE
    /\ only_rate_limits' = FALSE
    /\ UNCHANGED <<configVars, scaleVars, indicatorVars, loopVars, policyVars, runVars, AUTO_ACK_SAFETY_CHECKS, original>>
    /\ \E e \in APIConnectionErrors :
         /\ last_err' = e
         /\ IF RetriesExhausted(attempt) THEN Reraise(e)
            ELSE \E jitter \in Jitters(Backoff(attempt)) :
                    SleepAndRetry(BackoffSleep(attempt, jitter))

CreateStatusError ==
    /\ Attempting
    /\ calls' = calls + 1
    /\ granted' = FALSE
    /\ only_rate_limits' = FALSE
    /\ UNCHANGED <<configVars, scaleVars, indicatorVars, loopVars, policyVars, runVars, AUTO_ACK_SAFETY_CHECKS, original>>
    /\ \E e \in APIStatusErrors :
         /\ last_err' = e
         /\ IF e.status \notin RetryableStatus THEN Reraise(e)
            ELSE IF RetriesExhausted(attempt) THEN Reraise(e)
            ELSE \E jitter \in Jitters(Backoff(attempt)) :
                    SleepAndRetry(BackoffSleep(attempt, jitter))

\* after the loop: `if last_err is not None: raise last_err`
RaiseLastErr ==
    /\ send_pc = "attempt"
    /\ attempt > MAX_API_RETRIES
    /\ send_pc' = "raised"
    /\ raised_err' = last_err
    /\ UNCHANGED <<configVars, scaleVars, indicatorVars, loopVars, policyVars, runVars, AUTO_ACK_SAFETY_CHECKS, original,
                   kwargs, attempt, last_err, granted, acknowledged_ids, calls, sleeps,
                   acks, timeVars, only_rate_limits>>

----------------------------------------------------------------------------
(* utils.py: scale_point, and actions.py: the point perform_click clicks *)

\* the coordinates of a point: small ones, a negative one, and the scenario's
Coords == (-1..MaxCoord) \cup {100}

\* widths and heights of the model's display, zero and a negative one included
FromDims == (-1..MaxDim) \cup {200}

\* widths and heights of the screen, zero and a negative one included
ToDims == (-1..MaxDim) \cup {1080, 1920}

ScaleArgs ==
    [x : Coords, y : Coords, from_width : FromDims, from_height : FromDims,
     to_width : ToDims, to_height : ToDims]

NoScaleArgs ==
    [x |-> 0, y |-> 0, from_width |-> 1, from_height |-> 1,
     to_width |-> 1, to_height |-> 1]
NoPoint == [px |-> 0, py |-> 0]

\* round(num / den) for den > 0: to the nearest integer, a tie to the even one
RoundHalfEven(num, den) ==
    LET q == num \div den
        r == num % den
    IN  IF 2 * r > den THEN q + 1
        ELSE IF 2 * r < den THEN q
        ELSE IF q % 2 = 0 THEN q
        ELSE q + 1

\* Variant: the scaled coordinate is kept inside the target, 0 .. to - 1.
ScaleAxis_clamped(v, from, to) ==
    LET num == IF from > 0 THEN v * to ELSE -(v * to)
        den == IF from > 0 THEN from ELSE -from
        p == RoundHalfEven(num, den)
    IN  IF p < 0 THEN 0 ELSE IF p > to - 1 THEN to - 1 ELSE p

\* Variant: the scaled coordinate is truncated instead of rounded.
ScaleAxis_truncating(v, from, to) ==
    LET num == IF from > 0 THEN v * to ELSE -(v * to)
        den == IF from > 0 THEN from ELSE -from
    IN  IF num >= 0 THEN num \div den ELSE -((-num) \div den)

\* int(round(v * (to / from))) for from # 0. The quotient to / from and the
\* product are binary floating point numbers; for the coordinates and
\* dimensions drawn here the product rounds as the exact quotient v * to / from.
ScaleAxis(v, from, to) ==
    LET num == IF from > 0 THEN v * to ELSE -(v * to)
        den == IF from > 0 THEN from ELSE -from
    IN  RoundHalfEven(num, den)

\* whether the two divisions of scale_point can be carried out
ScaleDivides(a) == a.from_width # 0 /\ a.from_height # 0

scale_point(a) ==
    [px |-> ScaleAxis(a.x, a.from_width, a.to_width),
     py |-> ScaleAxis(a.y, a.from_height, a.to_height)]

ScaleIdle ==
    /\ scale_args = NoScaleArgs
    /\ scale_pc = "idle"
    /\ scale_result = NoPoint

\* one call of scale_point; a division by zero raises ZeroDivisionError
ScalePoint ==
    /\ scale_pc = "call"
    /\ IF ScaleDivides(scale_args)
       THEN /\ scale_pc' = "returned"
            /\ scale_result' = scale_point(scale_args)
       ELSE /\ scale_pc' = "raised"
            /\ scale_result' = NoPoint
    /\ UNCHANGED <<configVars, indicatorVars, sendVars, loopVars, policyVars, runVars,
                   scale_args>>

----------------------------------------------------------------------------
(* indicator.py: StatusIndicator, its UI thread, and the calls main makes *)

\* stop() puts None into the queue; the statuses main puts are numbered from 1,
\* the n-th call of update putting the status n
Sentinel == 0
NoStatus == 0

\* Variant: a failing put_nowait is not caught.
PutRaises_propagates(ok) == ~ok

\* try: self._queue.put_nowait(item) / except Exception: pass
PutRaises(ok) == FALSE

\* put_nowait: the item is appended, or the put fails and the item is dropped
Put(item, ok) ==
    /\ _queue' = IF ok THEN Append(_queue, item) ELSE _queue
    /\ put_log' = IF ok THEN Append(put_log, item) ELSE put_log
    /\ raised_into_loop' = (raised_into_loop \/ PutRaises(ok))

NoPut == UNCHANGED <<_queue, put_log, raised_into_loop>>

IndicatorIdle ==
    /\ enabled = FALSE
    /\ _thread = "none"
    /\ _queue = <<>>
    /\ root = "none"
    /\ last = NoStatus
    /\ text_var = NoStatus
    /\ put_log = <<>>
    /\ drained = <<>>
    /\ status_pc = "idle"
    /\ updates = 0
    /\ loop_exit = ""
    /\ stop_calls = 0
    /\ raised_into_loop = FALSE

NotIndicator ==
    UNCHANGED <<configVars, scaleVars, sendVars, loopVars, policyVars, runVars>>

\* status.start(): the UI thread is created and started, unless disabled
Start ==
    /\ status_pc = "start"
    /\ status_pc' = "loop"
    /\ _thread' = IF enabled /\ _thread \notin {"started", "polling"}
                  THEN "started" ELSE _thread
    /\ UNCHANGED <<enabled, _queue, root, last, text_var, put_log, drained,
                   updates, loop_exit, stop_calls, raised_into_loop>>
    /\ NotIndicator

\* status.update(...): the status is put without waiting, unless disabled
Update ==
    /\ status_pc = "loop"
    /\ updates < MaxUpdates
    /\ updates' = updates + 1
    /\ IF enabled
       THEN \E ok \in BOOLEAN : Put(updates + 1, ok)
       ELSE NoPut
    /\ UNCHANGED <<enabled, uiVars, status_pc, loop_exit, stop_calls>>
    /\ NotIndicator

\* Variant: an exception escapes main without the indicator being stopped.
AfterLoop_no_finally(how) == IF how = "exception" THEN "returned" ELSE "finally"

\* the loop is inside try ... finally: status.stop()
AfterLoop(how) == "finally"

\* the loop is left: by return 0 after it, by a break (a halt), both after a
\* last status.update, or by an exception
LeaveLoop ==
    /\ status_pc = "loop"
    /\ \E how \in {"return", "halt", "exception"} :
         /\ loop_exit' = how
         /\ status_pc' = AfterLoop(how)
         /\ IF how # "exception"
            THEN /\ updates' = updates + 1
                 /\ IF enabled
                    THEN \E ok \in BOOLEAN : Put(updates + 1, ok)
                    ELSE NoPut
            ELSE /\ UNCHANGED updates
                 /\ NoPut
    /\ UNCHANGED <<enabled, uiVars, stop_calls>>
    /\ NotIndicator

\* status.stop(): None is put without waiting, unless disabled
StopIndicator ==
    /\ status_pc = "finally"
    /\ status_pc' = "returned"
    /\ stop_calls' = stop_calls + 1
    /\ IF enabled
       THEN \E ok \in BOOLEAN : Put(Sentinel, ok)
       ELSE NoPut
    /\ UNCHANGED <<enabled, uiVars, updates, loop_exit>>
    /\ NotIndicator

\* the process ends after main: the daemon thread ends with it
ProcessExit ==
    /\ status_pc = "returned"
    /\ status_pc' = "exited"
    /\ _thread' = IF _thread \in {"started", "polling"} THEN "exited" ELSE _thread
    /\ root' = IF root = "open" THEN "destroyed" ELSE root
    /\ UNCHANGED <<enabled, _queue, last, text_var, put_log, drained,
                   updates, loop_exit, stop_calls, raised_into_loop>>
    /\ NotIndicator

\* _ui_thread_main up to mainloop: without Tkinter or without a display the
\* thread switches the indicator off and ends; else the window is opened and
\* pump_queue is scheduled
UiThreadMain ==
    /\ _thread = "started"
    /\ \E tk \in BOOLEAN :
         IF tk
         THEN /\ root' = "open"
              /\ _thread' = "polling"
              /\ UNCHANGED enabled
         ELSE /\ enabled' = FALSE
              /\ _thread' = "exited"
              /\ UNCHANGED root
    /\ UNCHANGED <<_queue, last, text_var, put_log, drained, statusVars>>
    /\ NotIndicator

\* the position of the first None in q, or 0
RECURSIVE FirstSentinel(_, _)
FirstSentinel(q, i) ==
    IF i > Len(q) THEN 0
    ELSE IF q[i] = Sentinel THEN i
    ELSE FirstSentinel(q, i + 1)

\* how many items one pump_queue gets: up to the first None, or all
Got(q) == IF FirstSentinel(q, 1) > 0 THEN FirstSentinel(q, 1) ELSE Len(q)

\* pump_queue: the items are got in order; None destroys the window and ends
\* the polling; else the latest status is displayed and pump_queue rescheduled
PumpQueue ==
    /\ _thread = "polling"
    /\ LET n == Got(_queue)
           got == SubSeq(_queue, 1, n)
           statuses == SelectSeq(got, LAMBDA item : item # Sentinel)
           newest == IF statuses # <<>> THEN statuses[Len(statuses)] ELSE last
       IN /\ _queue' = SubSeq(_queue, n + 1, Len(_queue))
          /\ drained' = drained \o got
          /\ last' = newest
          /\ IF n > 0 /\ got[n] = Sentinel
             THEN /\ root' = "destroyed"
                  /\ _thread' = "exited"
                  /\ UNCHANGED text_var
             ELSE /\ text_var' = newest
                  /\ UNCHANGED <<root, _thread>>
    /\ UNCHANGED <<enabled, put_log, statusVars>>
    /\ NotIndicator

----------------------------------------------------------------------------
(* Specifications *)

vars == <<AUTO_CONFIRM, USE_CONFIRM_INTERPRETER_MODEL, AUTO_CONFIRM_BLOCK_RISKY,
          response, computer_call, step, pc, halt, executed,
          error, effects, captures, screenshot_path, log, submission, submissions,
          output_texts, needs_confirm, file_op, verdict, message, interpreter,
          AUTO_ACK_SAFETY_CHECKS, original, kwargs, attempt, send_pc, last_err,
          raised_err, granted, acknowledged_ids, calls, sleeps, acks,
          sleep_s, only_rate_limits,
          settings, ENABLE_SESSION_SUMMARY, last_sent_screenshot, issued, received,
          request, subcall, confirm_sends, turn_kinds, final_line, exit_code,
          scale_args, scale_pc, scale_result,
          enabled, _thread, _queue, root, last, text_var, put_log, drained,
          status_pc, updates, loop_exit, stop_calls, raised_into_loop>>

InitConfig ==
    /\ AUTO_CONFIRM \in BOOLEAN
    /\ USE_CONFIRM_INTERPRETER_MODEL \in BOOLEAN
    /\ AUTO_CONFIRM_BLOCK_RISKY \in BOOLEAN

\* nothing has been executed, asked or submitted yet
InitNothingDone ==
    /\ step = 1
    /\ halt = ""
    /\ executed = 0
    /\ error = ""
    /\ effects = <<>>
    /\ captures = <<>>
    /\ screenshot_path = NoScreenshot
    /\ log = <<>>
    /\ submission = NoSubmission
    /\ submissions = 0
    /\ output_texts = <<>>
    /\ needs_confirm = FALSE
    /\ file_op = "none"
    /\ verdict = "idle"
    /\ message = NoMessage
    /\ interpreter = "not_called"

InitLoopRest ==
    /\ computer_call = NoCall
    /\ pc = "confirm"
    /\ InitNothingDone

\* no send of the transport client is being followed
SendIdle ==
    /\ AUTO_ACK_SAFETY_CHECKS = FALSE
    /\ original = [model |-> "computer-use", previous_response_id |-> "resp_1",
                   tools |-> "windows", truncation |-> "auto", input |-> <<CallOutput>>]
    /\ kwargs = original
    /\ attempt = 0
    /\ send_pc = "idle"
    /\ last_err = NoError
    /\ raised_err = NoError
    /\ granted = FALSE
    /\ acknowledged_ids = {}
    /\ calls = 0
    /\ sleeps = 0
    /\ acks = 0
    /\ sleep_s = 0
    /\ only_rate_limits = TRUE

\* nothing has been sent to the service, nothing has been printed
InitRunRest ==
    /\ last_sent_screenshot = NoScreenshot
    /\ request = NoRequest
    /\ subcall = NoSubcall
    /\ confirm_sends = 0
    /\ turn_kinds = <<>>
    /\ final_line = ""
    /\ exit_code = ""
    /\ ScaleIdle
    /\ IndicatorIdle

\* the response to the initial request has been received and is the first the
\* service issued; every required setting is present, every model is configured
FirstResponseReceived ==
    /\ settings = AllSet
    /\ issued = 1
    /\ received = 1
    /\ InitRunRest

\* The agent loop, from the response to the initial request onwards.
Init ==
    /\ InitConfig
    /\ ENABLE_SESSION_SUMMARY \in BOOLEAN
    /\ \E r \in Responses : response = WithId(r, 1)
    /\ InitLoopRest
    /\ FirstResponseReceived
    /\ SendIdle

Next ==
    \/ GetOrConfirmComputerCall
    \/ RecordResponse
    \/ ExecuteAction
    \/ SubmitEvidence

Spec == Init /\ [][Next]_vars

\* The confirmation policy alone, applied to every message text of a turn.
InitPolicy ==
    /\ InitConfig
    /\ ENABLE_SESSION_SUMMARY = TRUE
    /\ \E r \in [calls : {<<>>} \cup {<<c>> : c \in Calls \ {NoCall}}, text : Texts] :
          response = WithId(r, 1)
    /\ InitLoopRest
    /\ FirstResponseReceived
    /\ SendIdle

NextPolicy == GetOrConfirmComputerCall

SpecPolicy == InitPolicy /\ [][NextPolicy]_vars

\* One send of the transport client, for every request and every sequence of
\* service outcomes.
InitSend ==
    /\ AUTO_CONFIRM = TRUE
    /\ USE_CONFIRM_INTERPRETER_MODEL = TRUE
    /\ AUTO_CONFIRM_BLOCK_RISKY = TRUE
    /\ ENABLE_SESSION_SUMMARY = TRUE
    /\ response = WithId([calls |-> <<>>, text |-> <<>>], 1)
    /\ InitLoopRest
    /\ FirstResponseReceived
    /\ AUTO_ACK_SAFETY_CHECKS \in BOOLEAN
    /\ original \in Requests
    /\ kwargs = original
    /\ attempt = 0
    /\ send_pc = "attempt"
    /\ last_err = NoError
    /\ raised_err = NoError
    /\ granted = FALSE
    /\ acknowledged_ids = {}
    /\ calls = 0
    /\ sleeps = 0
    /\ acks = 0
    /\ sleep_s = 0
    /\ only_rate_limits = TRUE

NextSend ==
    \/ CreateSucceeds
    \/ CreateBadRequest
    \/ CreateRateLimited
    \/ CreateConnectionError
    \/ CreateStatusError
    \/ RaiseLastErr

SpecSend == InitSend /\ [][NextSend]_vars

\* execute_action alone, applied to every action.
InitAction ==
    /\ InitConfig
    /\ ENABLE_SESSION_SUMMARY = TRUE
    /\ InitNothingDone
    /\ FirstResponseReceived
    /\ SendIdle
    /\ \E a \in Actions :
          /\ response = WithId([calls |-> <<[call_id |-> "call_1", action |-> a]>>,
                                text |-> <<>>], 1)
          /\ computer_call = get_first_computer_call(response)
    /\ pc = "execute"

NextAction == ExecuteAction

SpecAction == InitAction /\ [][NextAction]_vars

\* One call of scale_point, for every point and every dimensions drawn.
InitScale ==
    /\ AUTO_CONFIRM = TRUE
    /\ USE_CONFIRM_INTERPRETER_MODEL = TRUE
    /\ AUTO_CONFIRM_BLOCK_RISKY = TRUE
    /\ ENABLE_SESSION_SUMMARY = TRUE
    /\ response = WithId([calls |-> <<>>, text |-> <<>>], 1)
    /\ InitLoopRest
    /\ settings = AllSet
    /\ issued = 1
    /\ received = 1
    /\ last_sent_screenshot = NoScreenshot
    /\ request = NoRequest
    /\ subcall = NoSubcall
    /\ confirm_sends = 0
    /\ turn_kinds = <<>>
    /\ final_line = ""
    /\ exit_code = ""
    /\ SendIdle
    /\ scale_args \in ScaleArgs
    /\ scale_pc = "call"
    /\ scale_result = NoPoint
    /\ IndicatorIdle

NextScale == ScalePoint

SpecScale == InitScale /\ [][NextScale]_vars

\* The status indicator over a run of main, with its UI thread.
InitIndicator ==
    /\ AUTO_CONFIRM = TRUE
    /\ USE_CONFIRM_INTERPRETER_MODEL = TRUE
    /\ AUTO_CONFIRM_BLOCK_RISKY = TRUE
    /\ ENABLE_SESSION_SUMMARY = TRUE
    /\ response = WithId([calls |-> <<>>, text |-> <<>>], 1)
    /\ InitLoopRest
    /\ settings = AllSet
    /\ issued = 1
    /\ received = 1
    /\ last_sent_screenshot = NoScreenshot
    /\ request = NoRequest
    /\ subcall = NoSubcall
    /\ confirm_sends = 0
    /\ turn_kinds = <<>>
    /\ final_line = ""
    /\ exit_code = ""
    /\ SendIdle
    /\ ScaleIdle
    /\ enabled \in BOOLEAN
    /\ _thread = "none"
    /\ _queue = <<>>
    /\ root = "none"
    /\ last = NoStatus
    /\ text_var = NoStatus
    /\ put_log = <<>>
    /\ drained = <<>>
    /\ status_pc = "start"
    /\ updates = 0
    /\ loop_exit = ""
    /\ stop_calls = 0
    /\ raised_into_loop = FALSE

NextIndicator ==
    \/ Start
    \/ Update
    \/ LeaveLoop
    \/ StopIndicator
    \/ ProcessExit
    \/ UiThreadMain
    \/ PumpQueue

SpecIndicator == InitIndicator /\ [][NextIndicator]_vars

\* The same with a UI thread that keeps being scheduled: root.after runs
\* pump_queue again every poll_ms while the thread is in mainloop.
SpecIndicatorFair == SpecIndicator /\ WF_vars(PumpQueue)

\* A run of main, from its start.
NoResponse == WithId([calls |-> <<>>, text |-> <<>>], NoId)

InitRun ==
    /\ InitConfig
    /\ ENABLE_SESSION_SUMMARY \in BOOLEAN
    /\ settings \in Settings
    /\ response = NoResponse
    /\ computer_call = NoCall
    /\ pc = "startup"
    /\ InitNothingDone
    /\ issued = 0
    /\ received = NoId
    /\ InitRunRest
    /\ SendIdle

NextRun ==
    \/ Startup
    \/ InitialRequest
    \/ GetOrConfirmComputerCall
    \/ RecordResponse
    \/ ExecuteAction
    \/ SubmitEvidence

SpecRun == InitRun /\ [][NextRun]_vars

\* One send of an evidence submission, as it progresses.
\* The send is sequential code: as long as a step of it is possible (the service
\* answers the call, the operator answers the prompt, the sleep ends), one is taken.
\* The send followed is an evidence submission.
InitSendEvidence == InitSend /\ original.input = <<CallOutput>>

SpecSendFair == InitSendEvidence /\ [][NextSend]_vars /\ WF_vars(NextSend)

----------------------------------------------------------------------------
(* Properties of the confirmation policy and of the loop around it *)

\* the policy has handled a turn that carried no action
PolicyRan == verdict \notin {"idle", "has_call"}

\* the strict delete keywords (delete, erase, unlink, sakujo, shoukyo)
StrictDeleteKeywords ==
    { <<"delete">>, <<"erase">>, <<"unlink">>, <<"sakujo">>, <<"shoukyo">> }

HasStrictDelete(text) == AnyIn(StrictDeleteKeywords, Lower(text))
HasRiskyTerm(text) == AnyIn(RISKY_CONFIRM_TERMS, Lower(text))
HasSaveAsPhrase(text) == AnyIn(save_as_terms, Lower(text))
HasOverwritePhrase(text) == AnyIn(overwrite_terms_strong, Lower(text))

\* C1: for every message text containing a strict delete keyword, under every
\* configuration and classifier answer, the policy never approves: the verdict
\* is not auto_approve and CONFIRM_MESSAGE is not the message sent.
C1_StrictDeleteNeverApproved ==
    (PolicyRan /\ HasStrictDelete(output_texts))
        => (verdict # "auto_approve" /\ message # CONFIRM_MESSAGE)

\* a delete text the classifier judged a permission request was refused
C1_Witness ==
    /\ PolicyRan
    /\ HasStrictDelete(output_texts)
    /\ ~HasRiskyTerm(output_texts)
    /\ USE_CONFIRM_INTERPRETER_MODEL
    /\ needs_confirm
    /\ verdict = "auto_deny"
    /\ message = DenyDeleteMessage

\* C2 (as claimed): with the denylist switched on, a text holding a denylist
\* term whose file-operation class is none gets no_action_needed and no message,
\* whichever way the permission-intent step is configured.
C2_DenylistAlwaysHalts ==
    ( /\ PolicyRan
      /\ AUTO_CONFIRM_BLOCK_RISKY
      /\ HasRiskyTerm(output_texts)
      /\ _classify_file_operation_confirmation(output_texts) = "none" )
        => (verdict = "no_action_needed" /\ message = NoMessage)

----------------------------------------------------------------------------
(* Properties of the transport/retry client *)

\* the safety check ids a bad-request detail embeds
EmbeddedIds(msg) ==
    {msg.quoted[k] : k \in {i \in 1..Len(msg.quoted) : msg.quoted[i][1] = SafetyPrefix}}

\* the detail is not that of a safety handshake, or names no id
NoIdParsed(msg) == ~msg.phrase \/ EmbeddedIds(msg) = {}

\* the ids a call-output item acknowledges
AcknowledgedOf(item) ==
    IF HasAcknowledged(item)
    THEN {item.acknowledged_safety_checks[k].id :
             k \in 1..Len(item.acknowledged_safety_checks)}
    ELSE {}

\* the send gave up on a retryable failure met on its last attempt
BudgetExhausted ==
    /\ send_pc = "raised"
    /\ \/ raised_err.kind \in {"RateLimitError", "APIConnectionError"}
       \/ raised_err.kind = "APIStatusError" /\ raised_err.status \in RetryableStatus

C8_AcknowledgedIdsAccumulate ==
    (send_pc # "idle") =>
        \A i \in 1..Len(original.input) :
            (IsCallOutput(original.input[i]) /\ ~HasAcknowledged(original.input[i]))
                => acknowledged_ids \subseteq AcknowledgedOf(kwargs.input[i])

\* C9: after a handshake failure on the request as the caller passed it, whose
\* detail embeds two distinct ids, and a granted acknowledgment, the request
\* that is resubmitted carries on each call-output item without a list of its
\* own a list of exactly those two ids, and is otherwise the original request.
C9_TwoIdsAcknowledgedOnResubmission ==
    ( /\ send_pc = "attempt"
      /\ attempt <= MAX_API_RETRIES
      /\ granted
      /\ acks = 1
      /\ Cardinality(EmbeddedIds(last_err.message)) = 2 )
        => /\ DOMAIN kwargs = DOMAIN original
           /\ \A f \in DOMAIN original \ {"input"} : kwargs[f] = original[f]
           /\ Len(kwargs.input) = Len(original.input)
           /\ \A i \in 1..Len(original.input) :
                LET o == original.input[i]
                    n == kwargs.input[i]
                IN IF IsCallOutput(o) /\ ~HasAcknowledged(o)
                   THEN /\ DOMAIN n = DOMAIN o \cup {"acknowledged_safety_checks"}
                        /\ \A f \in DOMAIN o : n[f] = o[f]
                        /\ Len(n.acknowledged_safety_checks) = 2
                        /\ AcknowledgedOf(n) = EmbeddedIds(last_err.message)
                   ELSE n = o

\* an evidence submission was rewritten to acknowledge two ids
C9_Witness ==
    /\ send_pc = "attempt"
    /\ attempt <= MAX_API_RETRIES
    /\ granted
    /\ acks = 1
    /\ Cardinality(EmbeddedIds(last_err.message)) = 2
    /\ original.input = <<CallOutput>>
    /\ AcknowledgedOf(kwargs.input[1]) = {<<"cu_sc_", "1">>, <<"cu_sc_", "2">>}

\* C10: when a service call fails with a bad request whose detail yields no
\* safety check id, or whose ids the operator does not acknowledge, that error
\* is raised to the caller as it is: the request is not rewritten, there is no
\* sleep, and the attempt counter does not move on to a resubmission.
C10_UnacknowledgedBadRequestPropagates ==
    [][ ( /\ send_pc = "attempt"
          /\ calls' = calls + 1
          /\ last_err'.kind = "BadRequestError"
          /\ (NoIdParsed(last_err'.message) \/ ~granted') )
        => ( /\ send_pc' = "raised"
             /\ raised_err' = last_err'
             /\ kwargs' = kwargs
             /\ sleeps' = sleeps
             /\ acks' = acks
             /\ attempt' = attempt ) ]_vars

\* the operator acknowledged a first handshake and refused a second one
C10_Witness ==
    /\ send_pc = "raised"
    /\ raised_err.kind = "BadRequestError"
    /\ ~NoIdParsed(raised_err.message)
    /\ ~granted
    /\ ~AUTO_ACK_SAFETY_CHECKS
    /\ acks = 1
    /\ kwargs # original

\* C11: when an acknowledgment is granted, the rewrite of the request keeps the
\* acknowledged list a call-output item of the caller already carries, keeps
\* every item that is no call-output item as it is, and leaves the caller's own
\* request as it was passed: the request in flight is a copy.
C11_RewriteKeepsCallerData ==
    /\ [](\A i \in 1..Len(original.input) :
            LET o == original.input[i]
            IN (~IsCallOutput(o) \/ HasAcknowledged(o))
                  => (i <= Len(kwargs.input) /\ kwargs.input[i] = o))
    /\ [][original' = original]_vars

\* a request with a caller-supplied list, a user item and a plain call-output
\* item was rewritten after a granted acknowledgment
C11_Witness ==
    /\ granted
    /\ acks >= 1
    /\ original.input = <<CallOutputAcked, UserItem, CallOutput>>
    /\ kwargs.input[1] = CallOutputAcked
    /\ kwargs.input[2] = UserItem
    /\ HasAcknowledged(kwargs.input[3])
    /\ kwargs # original

\* C12: a send that has met only rate-limit failures so far has slept once after
\* each of them; after k <= MAX_API_RETRIES of them it makes one more service
\* call, and when that call succeeds it returns, having called the service k + 1
\* times and slept k times; it raises only on failure number MAX_API_RETRIES + 1.
C12_RateLimitsThenSuccess ==
    (only_rate_limits /\ send_pc # "idle") =>
        /\ (send_pc = "attempt")
              => /\ calls <= MAX_API_RETRIES
                 /\ attempt <= MAX_API_RETRIES
                 /\ sleeps = calls
        /\ (send_pc = "returned")
              => /\ calls - 1 <= MAX_API_RETRIES
                 /\ sleeps = calls - 1
        /\ (send_pc = "raised")
              => /\ calls = MAX_API_RETRIES + 1
                 /\ sleeps = MAX_API_RETRIES
                 /\ raised_err.kind = "RateLimitError"

\* MAX_API_RETRIES rate-limit failures, then a success
C12_Witness ==
    /\ only_rate_limits
    /\ send_pc = "returned"
    /\ last_err.kind = "RateLimitError"
    /\ calls = MAX_API_RETRIES + 1
    /\ sleeps = MAX_API_RETRIES

\* C13 (as claimed): one send makes at most MAX_API_RETRIES service calls.
C13_CallsAtMostMaxRetries == calls <= MAX_API_RETRIES

\* C13 (amended): MAX_API_RETRIES bounds the retries, not the calls: one send
\* makes at most MAX_API_RETRIES + 1 service calls, the first one and at most
\* MAX_API_RETRIES retries; a send that gives up on retryable failures has made
\* exactly MAX_API_RETRIES + 1 calls, and the error a send raises is always the
\* last error it received from the service.
C13_CallsAtMostMaxRetriesPlusOne ==
    /\ calls <= MAX_API_RETRIES + 1
    /\ sleeps + acks <= MAX_API_RETRIES + 1
    /\ sleeps <= MAX_API_RETRIES
    /\ BudgetExhausted => calls = MAX_API_RETRIES + 1
    /\ (send_pc = "attempt" /\ calls = MAX_API_RETRIES + 1) => ~Attempting
    /\ (send_pc = "raised") => (raised_err = last_err /\ raised_err # NoError)

\* a send gave up on its ninth call, after eight backoff retries
C13_Witness ==
    /\ BudgetExhausted
    /\ acks = 0
    /\ calls = MAX_API_RETRIES + 1
    /\ sleeps = MAX_API_RETRIES
    /\ raised_err = last_err

\* C14: whatever the service answers (rate limits, connection errors, status
\* errors, handshakes that are acknowledged or not), one send ends, with a
\* response or with an error raised; it sleeps at most MAX_API_RETRIES times and
\* never longer than MAX_BACKOFF_SECONDS at a time, so that it stalls for at most
\* MAX_API_RETRIES * MAX_BACKOFF_SECONDS in all.
C14_SendTerminatesWithBoundedStall ==
    /\ <>(send_pc \in {"returned", "raised"})
    /\ [](sleeps <= MAX_API_RETRIES)
    /\ [](sleep_s <= MAX_BACKOFF_SECONDS)
    /\ [][sleeps' # sleeps => (sleeps' = sleeps + 1 /\ sleep_s' <= MAX_BACKOFF_SECONDS)]_vars
    /\ [](sleeps * MAX_BACKOFF_SECONDS <= MAX_API_RETRIES * MAX_BACKOFF_SECONDS)

\* a send ended after the longest stall: MAX_API_RETRIES sleeps, the last one
\* of MAX_BACKOFF_SECONDS, with an acknowledged handshake in between
C14_Witness ==
    /\ send_pc \in {"returned", "raised"}
    /\ sleeps = MAX_API_RETRIES
    /\ sleep_s = MAX_BACKOFF_SECONDS
    /\ acks = 1

\* the exponential backoff before jitter: min(MAX_BACKOFF, INITIAL_BACKOFF * 2^attempt)
JitterFreeBase(a) ==
    IF INITIAL_BACKOFF_SECONDS * (2 ^ a) <= MAX_BACKOFF_SECONDS
    THEN INITIAL_BACKOFF_SECONDS * (2 ^ a)
    ELSE MAX_BACKOFF_SECONDS

\* the last failure was a rate limit that came with a server-suggested wait
HintedRateLimit(e) == e.kind = "RateLimitError" /\ e.retry_after # NoRetryAfter

\* C15: every sleep between attempts lasts between 0.5 s and
\* MAX_BACKOFF_SECONDS; after a rate limit that carries a server-suggested wait
\* the sleep is that wait, brought into this range, with no jitter and whatever
\* the attempt; otherwise it is the base min(MAX_BACKOFF, INITIAL_BACKOFF *
\* 2^attempt) plus a jitter of at most 1 s, cut at MAX_BACKOFF_SECONDS, and the
\* base does not decrease from one attempt to the next.
C15_SleepWithinBoundsAndHintUsed ==
    [][ (sleeps' # sleeps) =>
          /\ sleeps' = sleeps + 1
          /\ attempt' = attempt + 1
          /\ sleep_s' >= MinSleep
          /\ sleep_s' <= MAX_BACKOFF_SECONDS
          /\ last_err'.kind \in {"RateLimitError", "APIConnectionError", "APIStatusError"}
          /\ IF HintedRateLimit(last_err')
             THEN sleep_s' = IF last_err'.retry_after < MinSleep THEN MinSleep
                             ELSE IF last_err'.retry_after > MAX_BACKOFF_SECONDS
                                  THEN MAX_BACKOFF_SECONDS
                                  ELSE last_err'.retry_after
             ELSE /\ sleep_s' >= JitterFreeBase(attempt)
                  /\ sleep_s' <= JitterFreeBase(attempt) + JitterCap
          /\ JitterFreeBase(attempt) <= JitterFreeBase(attempt')
          /\ JitterFreeBase(attempt) >= INITIAL_BACKOFF_SECONDS ]_vars

\* at the third attempt, where the computed backoff is 4 s, the send slept the
\* 2 s the server suggested
C15_Witness ==
    /\ send_pc = "attempt"
    /\ attempt = 3
    /\ sleeps = 3
    /\ last_err.kind = "RateLimitError"
    /\ last_err.retry_after = 4
    /\ sleep_s = 4
    /\ JitterFreeBase(2) = 8

\* C16: a service call that fails with a status error is followed by a backoff
\* sleep and another attempt only if the status is 500, 502, 503 or 504 (and
\* retries are left); with any other status the error is raised to the caller
\* at once, as it is, without a sleep, and the send makes no further call.
C16_OnlyRetryableStatusRetried ==
    /\ [][ ( /\ calls' # calls
              /\ send_pc' # "returned"
              /\ last_err'.kind = "APIStatusError" ) =>
              IF last_err'.status \in {500, 502, 503, 504}
              THEN IF attempt < MAX_API_RETRIES
                   THEN /\ send_pc' = "attempt"
                        /\ sleeps' = sleeps + 1
                        /\ attempt' = attempt + 1
                        /\ kwargs' = kwargs
                   ELSE /\ send_pc' = "raised"
                        /\ raised_err' = last_err'
                        /\ sleeps' = sleeps
              ELSE /\ send_pc' = "raised"
                   /\ raised_err' = last_err'
                   /\ sleeps' = sleeps
                   /\ sleep_s' = sleep_s
                   /\ attempt' = attempt ]_vars
    /\ [][ (send_pc = "raised") => (calls' = calls /\ sleeps' = sleeps) ]_vars

\* after one retry, a "not found" answer was raised on the first attempt it
\* was met, with retries left
C16_Witness ==
    /\ send_pc = "raised"
    /\ raised_err.kind = "APIStatusError"
    /\ raised_err.status = 404
    /\ attempt = 1
    /\ sleeps = 1
    /\ calls = 2


----------------------------------------------------------------------------
(* The steps of execute_action *)

\* the action asks for something the validation is there to refuse: a coordinate
\* that is not an int (a point of a drag path included), an empty drag path, an
\* empty list of keys
InvalidAction(a) ==
    \/ /\ a.type \in {"click", "double_click", "move", "scroll"}
       /\ ~IsInt(a.x) \/ ~IsInt(a.y)
    \/ /\ a.type = "drag"
       /\ a.path = <<>> \/ \E i \in 1..Len(a.path) : ~ValidPoint(a.path[i])
    \/ /\ a.type = "keypress"
       /\ a.keys = <<>>

\* C17: once execute_action has run, an action with a non-integer coordinate
\* (any point of a drag path included), an empty drag path or an empty list of
\* keys has been rejected, and a step that ended with a ValueError has made no
\* pointer or keyboard call.
C17_InvalidRejectedAndErrorsWithoutEffect ==
    pc # "execute" /\ computer_call # NoCall =>
        /\ InvalidAction(computer_call.action) => error # "" /\ effects = <<>>
        /\ halt = "value_error" => effects = <<>>


\* C18: a step whose action is of none of the nine recognised kinds makes no
\* pointer or keyboard call, takes no screenshot, sends no evidence submission
\* and ends the loop; nothing happens after the loop has ended.
C18_UnsupportedKindHaltsWithoutEffect ==
    /\ [][ pc = "execute" /\ computer_call.action.type \notin SupportedActionTypes
             => /\ effects' = <<>>
                /\ captures' = <<>>
                /\ submissions' = submissions
                /\ submission' = submission
                /\ executed' = executed
                /\ pc' = "done" ]_vars
    /\ [][ pc # "done" ]_vars

\* the answer to a synthesized message asked for an action of an unknown kind,
\* and the step has ended
C18_Witness ==
    /\ pc = "done"
    /\ halt = "value_error"
    /\ error = "Unsupported action type"
    /\ computer_call.action.type = "zoom"
    /\ confirm_sends = 1
    /\ submissions = 0


\* C19: the session-log entry written for a typed text records the length of the
\* text only: had any other text of the same length been typed, the log of the
\* step would be the same.
C19_TypeLogIndependentOfText ==
    pc # "execute" /\ computer_call.action.type = "type" =>
        \A t \in TypedTexts :
            Len(t) = Len(computer_call.action.text) => log = <<TypeLogEntry(t)>>


\* C20: an evidence submission is sent only for the action that has just been
\* executed; it carries the call id of that action's call unchanged and the
\* screenshot taken after the pointer and keyboard calls of the action.  Every
\* executed action has exactly one submission before the next action is derived:
\* the count of submissions lags the count of executed actions by one exactly
\* while the submission is due.
C20_OneSubmissionPerExecutedAction ==
    /\ [][ submissions' # submissions
             => /\ pc = "submit"
                /\ submissions' = submissions + 1
                /\ submission'.call_id = computer_call.call_id
                /\ submission'.call_id = get_first_computer_call(response).call_id
                /\ submission'.image = screenshot_path
                /\ submission'.image.after = Len(effects)
                /\ submission'.image \in { captures[i] : i \in 1..Len(captures) } ]_vars
    /\ [](pc = "submit" => executed = submissions + 1)
    /\ [](pc # "submit" => executed = submissions)

\* a typed text has been executed and its evidence submitted, and the next
\* action is being derived
C20_Witness ==
    /\ pc = "confirm"
    /\ step = 2
    /\ submissions = 1
    /\ executed = 1
    /\ submission.call_id = "call_2"
    /\ effects = <<"paste">>
    /\ submission.image = Capture("after_type", 1)


----------------------------------------------------------------------------
(* Properties of a run of main *)

\* C21: every request sent to the action model after the initial one carries as
\* previous_response_id the id of the response received last from that model, the
\* answer to a synthesized message included; the initial request carries none.
\* The response the loop holds is always the one received last, and each
\* reception replaces it by one with a fresh id.  A classifier or summary request
\* carries no previous_response_id, and a step that sends nothing to the action
\* model leaves the held response as it is, whatever ids the service issued to
\* sub-calls meanwhile.
C21_HandleIsLatestResponseId ==
    /\ [][ request' # request =>
             IF request'.input = "instruction"
             THEN request'.previous_response_id = NoId
             ELSE /\ received # NoId
                  /\ request'.previous_response_id = received ]_vars
    /\ [](response.id = received)
    /\ [][ received' # received =>
             /\ received' > received
             /\ received' = issued'
             /\ request' # request ]_vars
    /\ [](subcall.previous_response_id = NoId)
    /\ [][ request' = request => response' = response ]_vars

\* the evidence of the first action has been sent after a classifier call and a
\* synthesized message: it carried the id of the answer to that message, the
\* third id issued, and the summary call in between took the fourth
C21_Witness ==
    /\ pc = "confirm"
    /\ step = 2
    /\ message # NoMessage
    /\ request = [model |-> "computer_use", previous_response_id |-> 3,
                  input |-> "evidence"]
    /\ response.id = 5


\* C22: the step counter is 1 when the loop starts, grows by exactly 1 when an
\* iteration completes and at no other time, and stays within 1..MAX_STEPS; the
\* number of actions executed never exceeds the step counter, hence MAX_STEPS;
\* an iteration completed at step MAX_STEPS ends the loop.
C22_StepCounterWithinBudget ==
    /\ [](step \in 1..MAX_STEPS)
    /\ [](executed <= step /\ executed <= MAX_STEPS)
    /\ [](pc = "confirm" => executed = step - 1)
    /\ [][ step' # step => step' = step + 1 /\ pc = "submit" /\ pc' = "confirm" ]_vars
    /\ [][ pc = "submit" /\ pc' = "confirm" => step' = step + 1 ]_vars
    /\ [][ pc = "submit" /\ step = MAX_STEPS => pc' = "done" ]_vars

\* the first iteration has completed and the second has begun
C22_Witness ==
    /\ step = 2
    /\ executed = 1
    /\ pc = "record"


\* the actions of the scenarios: a keypress or a typed text, which execute_action
\* carries out and returns from
ScenarioActionKinds == {"keypress", "type"}

\* every turn at the top of the loop so far carried an action of the scenario
OnlyActionTurns ==
    \A i \in 1..Len(turn_kinds) : turn_kinds[i] \in ScenarioActionKinds

\* n turns with an action, then a turn with neither action nor permission request
ActionsThenNone(n) ==
    /\ Len(turn_kinds) = n + 1
    /\ \A i \in 1..n : turn_kinds[i] \in ScenarioActionKinds
    /\ turn_kinds[n + 1] = "none"

\* C23: as long as the service answers every request and every turn carries an
\* action, the loop keeps running below the step budget; and when after n such
\* turns turn n + 1 carries no action and no permission request, main stops with
\* exactly n actions executed and n evidence submissions and returns 0.
C23_ActionsThenNoActionIsDone ==
    /\ (pc = "done" /\ halt # "exception" /\ OnlyActionTurns)
           => Len(turn_kinds) >= MAX_STEPS
    /\ \A n \in 0..(MAX_STEPS - 1) :
           (pc = "done" /\ ActionsThenNone(n))
               => /\ halt = "no_call"
                  /\ executed = n
                  /\ submissions = n
                  /\ exit_code = "0"


\* C24: in one loop iteration at most one synthesized message is sent, and only
\* for a turn without action; when it is answered, the call of the iteration is
\* the call of that answer, and when that answer carries no action either the
\* loop stops, whatever its text asks.
C24_OneConfirmationRound ==
    /\ [](confirm_sends <= 1)
    /\ [][ confirm_sends' = confirm_sends + 1 =>
             /\ pc = "confirm"
             /\ get_first_computer_call(response) = NoCall
             /\ request'.input = "message"
             /\ \/ pc' = "done"
                \/ /\ pc' = "record"
                   /\ response'.id # response.id
                   /\ computer_call' = get_first_computer_call(response')
                   /\ computer_call' # NoCall ]_vars
    /\ [][ confirm_sends' = confirm_sends + 1 /\ get_first_computer_call(response') = NoCall =>
             /\ pc' = "done"
             /\ halt' \in {"no_call", "exception"}
             /\ executed' = executed ]_vars

\* the answer to the synthesized message asked for permission again and the
\* loop has stopped
C24_Witness ==
    /\ pc = "done"
    /\ halt = "no_call"
    /\ confirm_sends = 1
    /\ response.id = received
    /\ received > 1
    /\ get_first_computer_call(response) = NoCall
    /\ response.text = <<"yoroshii">>


\* C25: recording the response of a step (the session summary, the debug text)
\* is best effort: whatever fails there, the step whose call has been derived
\* goes on to execute its action, and the loop never stops for such a failure.
C25_SideChannelFailureNeverHalts ==
    [][ pc = "record" => pc' = "execute" /\ halt' = "" /\ exit_code' = "" ]_vars


\* C26: whenever the loop has stopped - no computer call after the confirmation
\* processing, an unsupported or malformed action, the step budget, a request
\* to the service that failed for good - main has printed one line saying why.
C26_EveryHaltPrintsItsReason ==
    (pc = "done" /\ halt \in {"no_call", "value_error", "no_screenshot", "budget",
                              "exception"})
        => final_line # ""


\* whether a loop stop counts as normal termination
NormalHalts == {"no_call", "value_error", "no_screenshot", "budget"}

\* a setting the run cannot do without is missing: the message, the action
\* model name, the name of a classifier or summary model that is switched on
RequiredSettingMissing ==
    \/ ~settings.message
    \/ ~settings.computer_use_model
    \/ ENABLE_SESSION_SUMMARY /\ ~settings.summary_model
    \/ USE_CONFIRM_INTERPRETER_MODEL /\ ~settings.confirm_model

\* C27: when the message, the action model name, or the name of a classifier or
\* summary model that is switched on is missing, main fails at startup with a
\* failure code: no request has been sent to the service, no screenshot taken, no
\* pointer or keyboard call made, and nothing happens afterwards.  When the loop
\* stops for want of a computer call, for a rejected action or at the step
\* budget, main returns 0.
C27_ConfigErrorIsFatalNormalHaltIsZero ==
    /\ [][ pc = "startup" /\ RequiredSettingMissing =>
             /\ pc' = "done"
             /\ halt' = "config_error"
             /\ exit_code' = "1" ]_vars
    /\ [](halt = "config_error" =>
             /\ RequiredSettingMissing
             /\ pc = "done"
             /\ exit_code = "1"
             /\ issued = 0
             /\ request = NoRequest
             /\ subcall = NoSubcall
             /\ captures = <<>>
             /\ effects = <<>>
             /\ executed = 0)
    /\ [](pc \notin {"startup", "done"} => ~RequiredSettingMissing)
    /\ [][ pc # "done" ]_vars
    /\ [](pc = "done" /\ halt \in NormalHalts => exit_code = "0")
    /\ [](exit_code = "0" => pc = "done" /\ halt \in NormalHalts)

\* the classifier is switched on and its model name is missing: main has failed
\* at startup
C27_Witness ==
    /\ pc = "done"
    /\ halt = "config_error"
    /\ USE_CONFIRM_INTERPRETER_MODEL
    /\ settings = [AllSet EXCEPT !.confirm_model = FALSE]
    /\ exit_code = "1"


\* the order of an iteration: the turn is received and its call derived, the
\* response is recorded, the action is executed and the screen captured, the
\* evidence is sent; main can stop after each
IterationOrder ==
    { <<"confirm", "record">>, <<"record", "execute">>, <<"execute", "submit">>,
      <<"submit", "confirm">>,
      <<"confirm", "done">>, <<"record", "done">>, <<"execute", "done">>,
      <<"submit", "done">> }

\* C28: the run is one sequence of steps in the fixed order of an iteration.  A
\* step that makes pointer or keyboard calls or takes screenshots sends nothing
\* to the service, and a step that sends a request executes nothing; at most one
\* request to the action model, one action and one submission happen per
\* step.  A submission is sent only once the action of the iteration has been
\* executed, and the screenshot it carries is the last one taken, after every
\* pointer and keyboard call of that action.
C28_SequentialFixedOrder ==
    /\ [][ pc' # pc => <<pc, pc'>> \in IterationOrder ]_vars
    /\ [][ executed' # executed \/ effects' # effects \/ captures' # captures =>
             /\ pc = "execute"
             /\ executed' \in {executed, executed + 1}
             /\ request' = request
             /\ issued' = issued
             /\ submissions' = submissions ]_vars
    /\ [][ request' # request =>
             /\ pc \in {"confirm", "submit"}
             /\ issued' \in {issued, issued + 1, issued + 2}
             /\ received' \in {received, issued'}
             /\ UNCHANGED <<executed, effects, captures, screenshot_path>> ]_vars
    /\ [][ submissions' # submissions =>
             /\ pc = "submit"
             /\ submissions' = submissions + 1
             /\ executed = submissions + 1
             /\ captures # <<>>
             /\ submission'.image = captures[Len(captures)]
             /\ submission'.image.after = Len(effects) ]_vars

\* a key combination was pressed between two screenshots and the second one has
\* been sent
C28_Witness ==
    /\ pc = "confirm"
    /\ step = 2
    /\ effects = <<"hotkey">>
    /\ captures = <<Capture("before_keypress", 0), Capture("after_keypress", 1)>>
    /\ submission.image = Capture("after_keypress", 1)
    /\ submissions = 1

\* the keywords the claim calls strict: delete, erase, overwrite, replace
\* existing and the localized sakujo, shoukyo, uwagaki, okikae
StrictDestructiveKeywords ==
    { <<"delete">>, <<"erase">>, <<"overwrite">>, <<"replace", "existing">>,
      <<"sakujo">>, <<"shoukyo">>, <<"uwagaki">>, <<"okikae">> }

\* those of them that are about replacing
ReplaceKeywords == { <<"replace", "existing">>, <<"okikae">> }

FileContextWords ==
    { <<"file">>, <<"folder">>, <<"directory">>, <<"path">>, <<"document">>,
      <<"file-ja">>, <<"folder-ja">>, <<"directory-ja">>, <<"path-ja">>,
      <<"document-ja">>, <<"hozon">> }

HasStrictDestructive(text) == AnyIn(StrictDestructiveKeywords, Lower(text))
HasContextFreeDestructive(text) ==
    AnyIn(StrictDestructiveKeywords \ ReplaceKeywords, Lower(text))
HasReplaceKeyword(text) == AnyIn(ReplaceKeywords, Lower(text))
HasFileContext(text) == AnyIn(FileContextWords, Lower(text))

DestructiveClasses == {"delete", "overwrite", "mixed"}

C30_BlankTextHaltsSilently ==
    (PolicyRan /\ IsBlank(output_texts))
        => /\ verdict = "no_action_needed"
           /\ pc = "done"
           /\ halt = "no_call"
           /\ subcall = NoSubcall
           /\ message = NoMessage
           /\ ~needs_confirm
           /\ confirm_sends = 0
           /\ issued = 1
           /\ received = 1
           /\ computer_call = NoCall

\* a turn whose text is a single blank, with auto-confirmation and the
\* classifier both switched on, halted without any call
C30_Witness ==
    /\ PolicyRan
    /\ output_texts = <<" ">>
    /\ AUTO_CONFIRM
    /\ USE_CONFIRM_INTERPRETER_MODEL
    /\ verdict = "no_action_needed"
    /\ pc = "done"
    /\ subcall = NoSubcall
    /\ issued = 1

----------------------------------------------------------------------------
(* Properties of scale_point *)

PositiveDims(a) ==
    a.from_width > 0 /\ a.from_height > 0 /\ a.to_width > 0 /\ a.to_height > 0

\* p is an integer nearest to v * to / from, for from > 0
IsNearest(p, v, from, to) ==
    LET d == p * from - v * to
    IN  2 * (IF d >= 0 THEN d ELSE -d) <= from

\* C32: for positive dimensions and every integer point, scale_point returns
\* on each axis an integer nearest to virtual * realDim / virtualDim; the point
\* (100, 100) of a 200 x 200 display maps to (960, 540) on a 1920 x 1080 screen.
C32_ScalePointIsNearestInteger ==
    (scale_pc # "call" /\ PositiveDims(scale_args))
        => /\ scale_pc = "returned"
           /\ IsNearest(scale_result.px, scale_args.x,
                        scale_args.from_width, scale_args.to_width)
           /\ IsNearest(scale_result.py, scale_args.y,
                        scale_args.from_height, scale_args.to_height)
           /\ (scale_args = [x |-> 100, y |-> 100, from_width |-> 200,
                             from_height |-> 200, to_width |-> 1920,
                             to_height |-> 1080])
                 => scale_result = [px |-> 960, py |-> 540]

\* the scenario's point was mapped
C32_Witness ==
    /\ scale_pc = "returned"
    /\ scale_args = [x |-> 100, y |-> 100, from_width |-> 200, from_height |-> 200,
                     to_width |-> 1920, to_height |-> 1080]
    /\ scale_result = [px |-> 960, py |-> 540]

\* C33: for positive dimensions, a point mapped to the dimensions it is given in
\* comes back unchanged, inside the display or outside it.
C33_IdenticalDimensionsGiveIdentity ==
    ( /\ scale_pc # "call"
      /\ PositiveDims(scale_args)
      /\ scale_args.to_width = scale_args.from_width
      /\ scale_args.to_height = scale_args.from_height )
        => /\ scale_pc = "returned"
           /\ scale_result = [px |-> scale_args.x, py |-> scale_args.y]

\* a point outside a 2 x 3 display was mapped to the same 2 x 3 display
C33_Witness ==
    /\ scale_pc = "returned"
    /\ scale_args = [x |-> 3, y |-> -1, from_width |-> 2, from_height |-> 3,
                     to_width |-> 2, to_height |-> 3]
    /\ scale_result = [px |-> 3, py |-> -1]

\* C34 (as claimed): whenever one of the four dimensions is zero or negative,
\* the call of scale_point ends with an error and no point is returned.
C34_NonPositiveDimensionsRejected ==
    (scale_pc # "call" /\ ~PositiveDims(scale_args)) => scale_pc = "raised"

\* C37 (as claimed): for positive dimensions, a point inside the model's
\* display is mapped to a pixel inside the screen.
C37_MappedPointInsideScreen ==
    ( /\ scale_pc = "returned"
      /\ PositiveDims(scale_args)
      /\ scale_args.x \in 0..(scale_args.from_width - 1)
      /\ scale_args.y \in 0..(scale_args.from_height - 1) )
        => /\ scale_result.px \in 0..(scale_args.to_width - 1)
           /\ scale_result.py \in 0..(scale_args.to_height - 1)

----------------------------------------------------------------------------
(* Properties of the evidence execute_action captures *)

BeforeTails == {"before_type", "before_keypress"}
InputKinds == {"type", "keypress"}

\* the screenshots of this step taken for the audit before the input
PreActionCaptures == {i \in 1..Len(captures) : captures[i].tail \in BeforeTails}

\* C35: an executed type or keypress action has captured one image before any
\* device input and one after all of it, in this order, and returned the second;
\* an action of any other kind has captured no image before its input; and
\* every action executed without error has returned exactly one screenshot,
\* taken after all the device input of the step.
C35_EvidenceOrder ==
    (pc # "execute")
        => LET a == computer_call.action
           IN /\ (a.type \in InputKinds /\ error = "")
                    => /\ Len(captures) = 2
                       /\ captures[1].tail = "before_" \o a.type
                       /\ captures[1].after = 0
                       /\ captures[2].tail = "after_" \o a.type
                       /\ captures[2].after = Len(effects)
                       /\ screenshot_path = captures[2]
                       /\ (a.type = "keypress") => Len(effects) = 1
                       /\ (a.type = "type" /\ a.text # <<>>) => effects = <<"paste">>
              /\ (a.type \notin InputKinds) => PreActionCaptures = {}
              /\ (error = "")
                    => /\ screenshot_path # NoScreenshot
                       /\ Cardinality(DOMAIN captures \ PreActionCaptures) = 1
                       /\ screenshot_path = captures[Len(captures)]
                       /\ screenshot_path.tail \notin BeforeTails
                       /\ screenshot_path.after = Len(effects)
                       /\ executed = 1

\* a key combination was pressed between its two screenshots
C35_Witness ==
    /\ pc = "submit"
    /\ computer_call.action.type = "keypress"
    /\ effects = <<"hotkey">>
    /\ captures = <<Capture("before_keypress", 0), Capture("after_keypress", 1)>>
    /\ screenshot_path = Capture("after_keypress", 1)

----------------------------------------------------------------------------
(* Properties of the choice of the computer call *)

\* C38: at the top of an iteration, a response that carries computer calls has
\* its first call in output order taken as the call of the step, and the
\* confirmation policy is not run for it: no classifier call, no
\* file-operation class, no synthesized message, nothing sent, whatever text
\* the response carries.  The call executed is that first call, one execution
\* per step, and after the execution the loop stops or goes on with a response
\* issued later, so no second call of the same response is ever executed.
C38_FirstCallOnlyAndNoPolicy ==
    /\ [][ (pc = "confirm" /\ response.calls # <<>>)
             => /\ computer_call' = response.calls[1]
                /\ pc' = "record"
                /\ verdict' = "has_call"
                /\ interpreter' = "not_called"
                /\ subcall' = NoSubcall
                /\ ~needs_confirm'
                /\ file_op' = "none"
                /\ message' = NoMessage
                /\ UNCHANGED <<response, request, confirm_sends, issued, received>> ]_vars
    /\ [][ (pc = "execute")
             => /\ computer_call = response.calls[1]
                /\ effects' = execute_action(response.calls[1].action).effects
                /\ executed' \in {executed, executed + 1}
                /\ pc' \in {"submit", "done"}
                /\ response' = response ]_vars
    /\ [][ (pc = "submit")
             => \/ pc' = "done"
                \/ (pc' = "confirm" /\ response'.id > response.id) ]_vars
    /\ [][ (pc' = "execute") => pc = "record" ]_vars

\* a response with a message text and two calls: the first call, the typed
\* text, was executed and the policy was not run
C38_Witness ==
    /\ pc = "submit"
    /\ Len(response.calls) = 2
    /\ response.calls[1].action.type = "type"
    /\ response.calls[2].action.type = "keypress"
    /\ response.text = DeleteQuestion
    /\ computer_call = response.calls[1]
    /\ effects = <<"paste">>
    /\ executed = 1
    /\ verdict = "has_call"
    /\ interpreter = "not_called"
    /\ confirm_sends = 0

----------------------------------------------------------------------------
(* Properties of the end of the loop *)

\* the loop has ended because the step budget is used up
BudgetReached == pc = "done" /\ halt = "budget"

BudgetNeverReached == ~BudgetReached

----------------------------------------------------------------------------
(* Properties of the status indicator *)

\* C36: no call of update or stop raises into main; main's next indicator call
\* can always be made, whatever the state of the indicator, of its thread and of
\* its queue, so none of them waits; the UI thread changes nothing main reads
\* (main's position, its counters, the loop's variables), and main's calls
\* change nothing of the UI thread's window.
C36_IndicatorNeverBlocksNorRaises ==
    /\ [](~raised_into_loop)
    /\ []((status_pc = "loop" /\ updates < MaxUpdates) => ENABLED Update)
    /\ [](status_pc = "loop" => ENABLED LeaveLoop)
    /\ [](status_pc = "finally" => ENABLED StopIndicator)
    /\ [][ (UNCHANGED <<status_pc, updates, stop_calls>>)
             => UNCHANGED <<statusVars, put_log, loopVars, policyVars, runVars>> ]_vars
    /\ [][ (status_pc' # status_pc /\ status_pc' # "exited")
             => UNCHANGED <<root, last, text_var, drained, enabled>> ]_vars
    /\ [][ (updates' # updates \/ stop_calls' # stop_calls)
             => (status_pc \in {"loop", "finally"} /\ Len(_queue') >= Len(_queue)) ]_vars

\* update and stop were called after the UI thread had ended for want of
\* Tkinter: a status put before the thread switched the indicator off stays in
\* the queue, and main returned
C36_Witness ==
    /\ status_pc = "returned"
    /\ _thread = "exited"
    /\ ~enabled
    /\ root = "none"
    /\ updates = MaxUpdates + 1
    /\ stop_calls = 1
    /\ _queue = <<1>>
    /\ ~raised_into_loop

\* the calls were made on a disabled indicator, whose thread was never started
C36_WitnessDisabled ==
    /\ status_pc = "returned"
    /\ _thread = "none"
    /\ updates > 0
    /\ stop_calls = 1
    /\ put_log = <<>>

\* a status of the queue comes before the first None put
RECURSIVE BeforeSentinel(_, _)
BeforeSentinel(log_, v) ==
    IF log_ = <<>> THEN FALSE
    ELSE IF log_[1] = Sentinel THEN FALSE
    ELSE IF log_[1] = v THEN TRUE
    ELSE BeforeSentinel(Tail(log_), v)

SentinelPut == \E i \in 1..Len(put_log) : put_log[i] = Sentinel

\* C40: with the UI thread in its polling loop and scheduled again and again,
\* once stop() has put None the window is destroyed and the polling ends; the
\* items are got in the order they were put; a pump that displays anything
\* displays the newest status it has got, and only a status put before None is
\* ever displayed; and main has called stop() exactly once when it is left, by
\* return, by a halt or by an exception.
C40_StopEndsTheIndicator ==
    /\ (SentinelPut /\ _thread = "polling") ~> (_thread = "exited" /\ root = "destroyed")
    /\ [](put_log = drained \o _queue)
    /\ [][ text_var' # text_var
             => /\ _thread = "polling"
                /\ root = "open"
                /\ text_var' = last'
                /\ \E i \in 1..Len(drained') :
                      /\ drained'[i] = text_var'
                      /\ i > Len(drained)
                      /\ \A j \in (i + 1)..Len(drained') : drained'[j] = Sentinel ]_vars
    /\ [](text_var # NoStatus => BeforeSentinel(put_log, text_var))
    /\ [][ (_thread = "exited") => UNCHANGED <<text_var, drained, last>> ]_vars
    /\ [](status_pc \in {"returned", "exited"}
            => (stop_calls = 1 /\ loop_exit \in {"return", "halt", "exception"}))
    /\ [](status_pc \in {"start", "loop", "finally"} => stop_calls = 0)

\* after an exception left the loop, stop() put None behind two statuses; the
\* UI thread, which had displayed the first, got both items left and destroyed
\* its window without displaying the second
C40_Witness ==
    /\ loop_exit = "exception"
    /\ status_pc = "returned"
    /\ stop_calls = 1
    /\ put_log = <<1, 2, Sentinel>>
    /\ drained = put_log
    /\ text_var = 1
    /\ last = 2
    /\ root = "destroyed"
    /\ _thread = "exited"

====
